---- MODULE Spec2Model ----
(***************************************************************************)
(* A model of qik's DAG scheduler (qik/runner.py), of the execution of a   *)
(* runnable against its cache backend (qik/runnable.py, qik/cache.py), of  *)
(* the fingerprint functions on a git repository (qik/hash.py), of the     *)
(* Load dep (qik/dep.py), of the watcher (qik/watcher.py) and of the       *)
(* filter of the graph by changes (qik/runner.py).                         *)
(*                                                                         *)
(* Python values are encoded as follows.  `None` and `str` share no type   *)
(* in TLC, so an optional string is the record [some, text]; an optional   *)
(* Result is a record with the flag isresult.  A hash is a sequence, the   *)
(* empty hash "" is the empty sequence.                                    *)
(***************************************************************************)
EXTENDS Integers, Sequences, FiniteSets, TLC

\* ---------------------------------------------------------------- bounds
MaxWorkers == 2
MaxCode == 2
MaxEvents == 3
MaxArgs == 3

\* ------------------------------------------------------- python values
\* a str is a sequence of characters: "CR" is \r, "LF" is \n, any other
\* element is a run of ordinary characters; a `str | None` is [some, text]
NoneStr == [some |-> FALSE, text |-> << >>]
Str(s) == [some |-> TRUE, text |-> s]
\* bool(x) of an optional string: None and "" are falsy
Truthy(l) == l.some /\ l.text # << >>

\* pathlib.Path.write_text on POSIX: newline=None writes "\n" as os.linesep,
\* which is "\n", and every other character as it is
write_text(s) == s

\* pathlib.Path.read_text: newline=None reads "\r\n" and "\r" as "\n"
RECURSIVE read_text(_)
read_text(s) ==
    IF s = << >> THEN << >>
    ELSE IF Head(s) = "CR"
    THEN <<"LF">> \o read_text(IF Len(s) > 1 /\ s[2] = "LF" THEN Tail(Tail(s))
                                ELSE Tail(s))
    ELSE <<Head(s)>> \o read_text(Tail(s))

EmptyHash == <<>>

Result(log, code, hash) == [isresult |-> TRUE, log |-> log, code |-> code, hash |-> hash]
NoResult == [isresult |-> FALSE, log |-> NoneStr, code |-> 0, hash |-> EmptyHash]

\* the exit codes a command can return: a process killed by a signal has a
\* negative returncode, a callable returns any integer
Codes == (-1)..MaxCode

\* --------------------------------------------------------- cache policy
CacheWhens == {"success", "failed", "finished"}

should_cache(cache_when, code) ==
    CASE cache_when = "success" -> code = 0
      [] cache_when = "failed" -> code # 0
      [] cache_when = "finished" -> TRUE

\* ------------------------------------------------- files and cache dirs
\* content of a file that does not exist
NoFile == "<missing>"
Contents == {"v1", "v2"}

\* the artifact files a runnable can declare (its artifact globs, one file each)
ArtPaths == {"dist/a", "dist/b"}

NoManifest ==
    [present |-> FALSE, name |-> "", hash |-> EmptyHash, code |-> 0,
     log |-> FALSE, artifacts |-> {}]

\* cache.Manifest; log is the name of the log file or None, kept as a flag
Manifest(name, hash, code, log, artifacts) ==
    [present |-> TRUE, name |-> name, hash |-> hash, code |-> code,
     log |-> log, artifacts |-> artifacts]

\* what one runnable has under base_path: the manifest <name>.json, the log
\* <name>.out and the artifact copies artifact-<b64(path)>
EmptyDir ==
    [manifest |-> NoManifest, out |-> NoneStr, arts |-> [p \in ArtPaths |-> NoFile]]

NoEntry == [found |-> FALSE, manifest |-> NoManifest, log |-> NoneStr]
Entry(manifest, log) == [found |-> TRUE, manifest |-> manifest, log |-> log]

Backends == {"none", "repo", "local", "s3"}

\* Repo.base_path has no hash (one manifest per runnable name), Local.base_path
\* is <name>-<hash>; S3 inherits Local
base_path(backend, name, hash) ==
    IF backend = "repo" THEN <<"repo", name, EmptyHash>> ELSE <<"local", name, hash>>

\* S3Cache.remote_path
remote_path(name, hash) == <<"s3", name, hash>>

\* a set_artifacts that copies the files and returns no paths
set_artifacts_unlisted(backend, dir, wt, artifacts) ==
    [artifacts |-> {},
     dir |-> [dir EXCEPT !.arts = [p \in ArtPaths |->
                                     IF p \in artifacts /\ wt[p] # NoFile THEN wt[p]
                                     ELSE @[p]]]]

\* Cache.set_artifacts (returns []), Local.set_artifacts (copies every file
\* the artifact globs match into the cache dir and returns their paths)
set_artifacts(backend, dir, wt, artifacts) ==
    IF backend \in {"local", "s3"}
    THEN LET found == {p \in artifacts : wt[p] # NoFile}
         IN  [artifacts |-> found,
              dir |-> [dir EXCEPT !.arts =
                          [p \in ArtPaths |-> IF p \in found THEN wt[p] ELSE @[p]]]]
    ELSE [artifacts |-> {}, dir |-> dir]

\* a Cache.set that writes the manifest and never the log
cache_set_dir_unlogged(backend, dir, wt, name, artifacts, result) ==
    [dir EXCEPT !.manifest = Manifest(name, result.hash, result.code, FALSE, {})]

\* Cache.set up to post_set: artifacts, manifest, then the log only if it is
\* truthy (an old log file stays in place otherwise)
cache_set_dir(backend, dir, wt, name, artifacts, result) ==
    LET sa == set_artifacts(backend, dir, wt, artifacts)
        manifest == Manifest(name, result.hash, result.code, Truthy(result.log),
                             sa.artifacts)
    IN  [sa.dir EXCEPT !.manifest = manifest,
                       !.out = IF Truthy(result.log)
                               THEN Str(write_text(result.log.text)) ELSE @]

\* a _get_entry that does not compare the hash of the manifest
get_entry_any_hash(backend, dir, wt, hash) ==
    LET m == dir.manifest
        restores == backend \in {"local", "s3"}
        have == {p \in m.artifacts : dir.arts[p] # NoFile}
        put(X) == [p \in ArtPaths |-> IF p \in X THEN dir.arts[p] ELSE wt[p]]
        log == IF m.log THEN Str(read_text(dir.out.text)) ELSE NoneStr
    IN  IF ~m.present \/ (m.log /\ ~dir.out.some)
        THEN [entry |-> NoEntry, wts |-> {wt}]
        ELSE IF ~restores
        THEN [entry |-> Entry(m, log), wts |-> {wt}]
        ELSE IF have = m.artifacts
        THEN [entry |-> Entry(m, log), wts |-> {put(have)}]
        ELSE [entry |-> NoEntry, wts |-> {put(X) : X \in SUBSET have}]

\* Cache.get._get_entry on one cache dir.  FileNotFoundError is found = FALSE.
\* Local.get_artifacts copies the cached artifacts back in set order, so when
\* one copy is missing any subset of the others may already be restored.
get_entry(backend, dir, wt, hash) ==
    LET m == dir.manifest
        restores == backend \in {"local", "s3"}
        have == {p \in m.artifacts : dir.arts[p] # NoFile}
        put(X) == [p \in ArtPaths |-> IF p \in X THEN dir.arts[p] ELSE wt[p]]
        log == IF m.log THEN Str(read_text(dir.out.text)) ELSE NoneStr
    IN  IF ~m.present \/ m.hash # hash \/ (m.log /\ ~dir.out.some)
        THEN [entry |-> NoEntry, wts |-> {wt}]
        ELSE IF ~restores
        THEN [entry |-> Entry(m, log), wts |-> {wt}]
        ELSE IF have = m.artifacts
        THEN [entry |-> Entry(m, log), wts |-> {put(have)}]
        ELSE [entry |-> NoEntry, wts |-> {put(X) : X \in SUBSET have}]

\* a download_dir that downloads nothing
download_dir_nothing(local, remote) == local

\* Client.download_dir: every object below the prefix overwrites the local
\* file of the same name, other local files stay
download_dir(local, remote) ==
    [manifest |-> IF remote.manifest.present THEN remote.manifest ELSE local.manifest,
     out |-> IF remote.out.some THEN remote.out ELSE local.out,
     arts |-> [p \in ArtPaths |->
                  IF remote.arts[p] # NoFile THEN remote.arts[p] ELSE local.arts[p]]]

\* Client.upload_dir: every file of the local dir is put below the prefix
upload_dir(local, remote) == download_dir(remote, local)

\* a map with a default: base paths that were never written are empty dirs
DirAt(fs, path) == IF path \in DOMAIN fs THEN fs[path] ELSE EmptyDir
Put(f, k, v) == [x \in DOMAIN f \cup {k} |-> IF x = k THEN v ELSE f[x]]
Del(f, k) == [x \in DOMAIN f \ {k} |-> f[x]]

\* Cache.get: one read, on a miss on_miss (NotImplementedError except for S3,
\* which downloads the entry) and one more read.  Uncached.get returns None.
\* The result is the set of possible outcomes (entry, local files, worktree,
\* and whether on_miss was called).
cache_get(backend, fs, rfs, wt, name, hash) ==
    IF backend = "none"
    THEN {[entry |-> NoEntry, fs |-> fs, wt |-> wt, missed |-> FALSE]}
    ELSE
    LET bp == base_path(backend, name, hash)
        g1 == get_entry(backend, DirAt(fs, bp), wt, hash)
    IN  IF g1.entry.found
        THEN {[entry |-> g1.entry, fs |-> fs, wt |-> w, missed |-> FALSE] : w \in g1.wts}
        ELSE IF backend # "s3"
        THEN {[entry |-> NoEntry, fs |-> fs, wt |-> w, missed |-> TRUE] : w \in g1.wts}
        ELSE LET fs2 == Put(fs, bp, download_dir(DirAt(fs, bp),
                                                 DirAt(rfs, remote_path(name, hash))))
             IN  UNION {
                   LET g2 == get_entry(backend, DirAt(fs2, bp), w1, hash)
                   IN  {[entry |-> g2.entry, fs |-> fs2, wt |-> w2, missed |-> TRUE] :
                           w2 \in g2.wts}
                   : w1 \in g1.wts}

\* Cache.set with post_set: S3 uploads the dir of the entry; Uncached.set is
\* a no-op
cache_set(backend, fs, rfs, wt, name, artifacts, result) ==
    IF backend = "none" THEN [fs |-> fs, rfs |-> rfs]
    ELSE
    LET bp == base_path(backend, name, result.hash)
        dir == cache_set_dir(backend, DirAt(fs, bp), wt, name, artifacts, result)
        rp == remote_path(name, result.hash)
    IN  [fs |-> Put(fs, bp, dir),
         rfs |-> IF backend = "s3" THEN Put(rfs, rp, upload_dir(dir, DirAt(rfs, rp)))
                 ELSE rfs]

\* a from_cache that takes the hash of the result from nowhere
from_cache_unhashed(entry) == Result(entry.log, entry.manifest.code, EmptyHash)

\* Result.from_cache
from_cache(entry) == Result(entry.log, entry.manifest.code, entry.manifest.hash)

\* a get_cache_entry that looks the entry up under force as well
get_cache_entry_unforced(r, force, fs, rfs, wt, hash) ==
    {[g EXCEPT !.entry = IF @.found /\ should_cache(r.cache_when, @.manifest.code)
                         THEN @ ELSE NoEntry] :
        g \in cache_get(r.cache, fs, rfs, wt, r.name, hash)}

\* a get_cache_entry that returns every entry Cache.get returns
get_cache_entry_any_code(r, force, fs, rfs, wt, hash) ==
    IF force THEN {[entry |-> NoEntry, fs |-> fs, wt |-> wt, missed |-> FALSE]}
    ELSE cache_get(r.cache, fs, rfs, wt, r.name, hash)

\* Runnable.get_cache_entry for runnable r = [name, cache, cache_when,
\* artifacts]: no lookup under force; an entry whose code does not satisfy
\* cache_when is dropped (None) after Cache.get restored its artifacts
get_cache_entry(r, force, fs, rfs, wt, hash) ==
    IF force THEN {[entry |-> NoEntry, fs |-> fs, wt |-> wt, missed |-> FALSE]}
    ELSE {[g EXCEPT !.entry = IF @.found /\ should_cache(r.cache_when, @.manifest.code)
                              THEN @ ELSE NoEntry] :
             g \in cache_get(r.cache, fs, rfs, wt, r.name, hash)}

\* a Runnable._exec whose result has the fingerprint the cache was read with
runnable_exec_hash_before(r, force, fs, rfs, wt, hash, cmd) ==
    LET gets == get_cache_entry(r, force, fs, rfs, wt, hash)
    IN  { LET cache_entry == g.entry
          IN  IF cache_entry.found
              THEN [result |-> from_cache(cache_entry), ran |-> FALSE,
                    got |-> g.entry, missed |-> g.missed, stored |-> FALSE,
                    fs |-> g.fs, rfs |-> rfs, wt |-> g.wt]
              ELSE LET result == Result(cmd.log, cmd.code, hash)
                       stores == should_cache(r.cache_when, cmd.code)
                       cs == IF stores
                             THEN cache_set(r.cache, g.fs, rfs, cmd.wt, r.name,
                                            r.artifacts, result)
                             ELSE [fs |-> g.fs, rfs |-> rfs]
                   IN  [result |-> result, ran |-> TRUE,
                        got |-> g.entry, missed |-> g.missed, stored |-> stores,
                        fs |-> cs.fs, rfs |-> cs.rfs, wt |-> cmd.wt]
          : g \in gets }

\* Runnable._exec.  hash is the fingerprint when the cache is read; cmd =
\* [code, log, wt, hash] is what the command does if it runs: its exit code,
\* its output, the artifact files after it ran and the fingerprint after it
\* ran.  cache_result stores the result only if should_cache.
runnable_exec(r, force, fs, rfs, wt, hash, cmd) ==
    LET gets == get_cache_entry(r, force, fs, rfs, wt, hash)
    IN  { LET cache_entry == g.entry
          IN  IF cache_entry.found
              THEN [result |-> from_cache(cache_entry), ran |-> FALSE,
                    got |-> g.entry, missed |-> g.missed, stored |-> FALSE,
                    fs |-> g.fs, rfs |-> rfs, wt |-> g.wt]
              ELSE LET result == Result(cmd.log, cmd.code, cmd.hash)
                       stores == should_cache(r.cache_when, cmd.code)
                       cs == IF stores
                             THEN cache_set(r.cache, g.fs, rfs, cmd.wt, r.name,
                                            r.artifacts, result)
                             ELSE [fs |-> g.fs, rfs |-> rfs]
                   IN  [result |-> result, ran |-> TRUE,
                        got |-> g.entry, missed |-> g.missed, stored |-> stores,
                        fs |-> cs.fs, rfs |-> cs.rfs, wt |-> cmd.wt]
          : g \in gets }

\* ====================================================== the DAG scheduler
\* the runnables of the project, in an order in which a runnable only depends
\* on earlier ones (the graph has no cycle: Graph.__init__ fails on one)
Names == <<"build", "test", "lint">>
Nodes == {Names[i] : i \in DOMAIN Names}
Index(n) == CHOOSE i \in DOMAIN Names : Names[i] = n

\* the commands the project names in its Cmd deps with strict = true; a Cmd
\* dep on any other command is not strict
StrictCmds == {"build"}

VARIABLES
    cache_fs,       \* the local cache directories (.qik and ._qik), by base path
    remote_fs,      \* the objects of the S3 bucket, by remote path
    worktree,       \* the artifact files in the project directory
    graph_up,       \* Graph._graph["up"]: runnable -> its direct Cmd deps
    graph_down,     \* Graph._graph["down"]: runnable -> its strict dependents
    view,           \* Graph._view as [none, names]
    workers,        \* ctx workers: max_workers of the thread pool
    cache_when,     \* the cache_when of the runnables (the default, "success")
    cmd_code,       \* the exit code each command returned when it was run
    cache0,         \* cache_fs when the run started
    pc,             \* where DAGPool.exec / Runner.exec stands
    in_degree, results, failed, futures, exception,   \* locals of DAGPool._exec
    finished,       \* the futures wait() returned that _finish has not seen yet
    exit_code,      \* what Runner.exec returned
    submits,        \* how often each node was given to pool.submit
    ran             \* the nodes whose command was run

dag_vars == <<graph_up, graph_down, view, workers, cache_when, cmd_code, cache0, pc,
              in_degree, results, failed, futures, exception, finished, exit_code,
              submits, ran>>

VARIABLES
    r_cache,        \* Runnable.cache of the runnable that is executed on its own
    r_artifacts,    \* Runnable.artifacts: the artifact paths it declares
    deps_version,   \* the version of the files the runnable depends on
    step,           \* "first", "between", "done": which operation comes next
    first, second,  \* what the first and the second operation did
    cleaned         \* the private work dir was removed between the operations

cache_vars == <<r_cache, r_artifacts, deps_version, step, first, second, cleaned>>

VARIABLES
    r_consts,       \* the vals of the Const deps of the runnable that is hashed
    r_has_val,      \* the runnable has a Val dep
    tracked,        \* the files of the git index
    staged,         \* the content each file of the index has in the index
    files,          \* the content of the files in the work tree
    pydist_version, \* the installed version of the pydist it depends on
    val_value,      \* the value its Val dep names
    prev_hash,      \* what Runnable.hash() gave before the last change
    last_change     \* what changed last

hash_vars == <<r_consts, r_has_val, tracked, staged, files, pydist_version,
               val_value, prev_hash, last_change>>

\* what Runnable.hash() gives: a digest, or it raises
NoHash == [raised |-> FALSE, digest |-> << >>]

\* nothing is hashed
IdleHash ==
    /\ r_consts = {}
    /\ r_has_val = FALSE
    /\ tracked = {}
    /\ staged = << >>
    /\ files = << >>
    /\ pydist_version = "1"
    /\ val_value = "1"
    /\ prev_hash = NoHash
    /\ last_change = "idle"

VARIABLES
    dist_installed, \* the pydist the runnable depends on is in the venv
    dotenv_found,   \* the dotenv file of the runnable's space exists
    x_last          \* what the last Runnable.exec did

err_vars == <<dist_installed, dotenv_found, x_last>>

\* no Runnable.exec was called
NoExec ==
    [op |-> "none", force |-> FALSE, raised |-> FALSE, error |-> "none",
     ran |-> FALSE, stored |-> FALSE, result |-> NoResult]

\* no runnable is executed with its venv or dotenv missing
IdleErr ==
    /\ dist_installed = TRUE
    /\ dotenv_found = TRUE
    /\ x_last = NoExec

VARIABLES
    w_changes,      \* QikEventHandler.changes: the pending change set
    w_armed,        \* QikEventHandler.timer is started and has not fired
    w_waiting,      \* timers that fired and whose handle_events has not run
    w_lock,         \* QikEventHandler.lock: "free", "event" or "run"
    w_cur,          \* the path of the event on_any_event is handling
    w_state,        \* "watching"; "exiting" after sys.exit(1); "exited"
    w_events,       \* the events on_any_event was called with, in order
    w_execs         \* the calls of Runner.exec by handle_events, in order

watch_vars == <<w_changes, w_armed, w_waiting, w_lock, w_cur, w_state, w_events,
                w_execs>>

\* no watcher runs
IdleWatch ==
    /\ w_changes = {}
    /\ w_armed = FALSE
    /\ w_waiting = 0
    /\ w_lock = "free"
    /\ w_cur = "none"
    /\ w_state = "idle"
    /\ w_events = << >>
    /\ w_execs = << >>

VARIABLES
    f_deps,         \* the dep each runnable of the graph declares
    f_lock,         \* a lock file is configured for the venv
    f_out           \* what the last Graph.filter_changes did

filter_vars == <<f_deps, f_lock, f_out>>

\* Graph.filter_changes was not called
NoFilter ==
    [op |-> "none", strategy |-> "none", changes |-> {}, raised |-> "none", view |-> {}]

\* no graph is filtered by changes
IdleFilter ==
    /\ f_deps = << >>
    /\ f_lock = TRUE
    /\ f_out = NoFilter

VARIABLES
    g_args,         \* the patterns hash.globs is called with
    g_clean,        \* the index is what the last commit holds
    g_prev,         \* what hash.globs gave before the last git or file operation
    g_last          \* the last git or file operation

git_vars == <<g_args, g_clean, g_prev, g_last>>

\* no operation on the repository
NoGit == [op |-> "none", path |-> "none", tracked |-> FALSE]

\* no repository is worked on
IdleGit ==
    /\ g_args = << >>
    /\ g_clean = TRUE
    /\ g_prev = NoHash
    /\ g_last = NoGit

VARIABLES
    l_file,         \* the file of the Load dep: missing, undecodable or written
    l_written       \* the last call of store_deps and the files and version it saw

load_vars == <<l_file, l_written>>

\* the file of the Load dep does not exist
NoSerialized == [state |-> "missing", json |-> << >>]

\* store_deps was not called
NoStore ==
    [stored |-> FALSE, globs |-> << >>, pydists |-> << >>, hash |-> FALSE,
     files |-> << >>, version |-> "1"]

\* no Load dep is loaded
IdleLoad ==
    /\ l_file = NoSerialized
    /\ l_written = NoStore

VARIABLES
    b_conf,         \* the Cmd dep of each command on each other, with its isolated flag
    b_isolated,     \* ctx isolated
    b_cmds,         \* the commands the graph is built for
    b_out           \* what Graph.__init__ did

build_vars == <<b_conf, b_isolated, b_cmds, b_out>>

\* Graph.__init__ was not called
NoGraph == [state |-> "none", nodes |-> {}, up |-> << >>, down |-> << >>]

\* no graph is built
IdleBuild ==
    /\ b_conf = << >>
    /\ b_isolated = FALSE
    /\ b_cmds = {}
    /\ b_out = NoGraph

VARIABLES
    m_func,         \* the functools.cache of a per_run_cache function: what it holds
    m_prop,         \* instance.__dict__[attrname] of a per_run_cached_property
    m_reg,          \* (instance.__dict__, attrname) is in _RUN_CACHED_PROPS
    m_ret           \* the value the last call returned

memo_vars == <<m_func, m_prop, m_reg, m_ret>>

\* nothing is memoized.  A memoized value is "now" if the run that is on
\* computed it and "before" if it was there when the run began.
NoMemo == "none"

IdleMemo ==
    /\ m_func = NoMemo
    /\ m_prop = NoMemo
    /\ m_reg = FALSE
    /\ m_ret = NoMemo

VARIABLES
    v_dir,          \* the names os.listdir gives for the site-packages dir of the venv
    v_mem,          \* Venv.__dict__["_packages_distributions"]: (venv_hash, mapping)
    v_disk,         \* the file ._qik/venv/.packages_distributions/<name>.json
    v_lock,         \* the thread that holds _packages_distributions_lock
    v_pc,           \* where each caller of packages_distributions is
    v_hash,         \* venv_hash of each caller
    v_ret,          \* what each call returned since the dir last changed
    v_midcall       \* the dir has changed while a call was on

venv_vars == <<v_dir, v_mem, v_disk, v_lock, v_pc, v_hash, v_ret, v_midcall>>

Threads == {1, 2}

\* (None, None), no file, no call
NoMem == [hash |-> <<"None">>, map |-> [src |-> {"None"}]]
NoDiskCache == [present |-> FALSE, hash |-> << >>, map |-> [src |-> {}]]
NoReturn == [path |-> "none", hash |-> << >>, map |-> [src |-> {}]]

IdleVenv ==
    /\ v_dir = {}
    /\ v_mem = NoMem
    /\ v_disk = NoDiskCache
    /\ v_lock = 0
    /\ v_pc = [t \in Threads |-> "idle"]
    /\ v_hash = [t \in Threads |-> << >>]
    /\ v_ret = [t \in Threads |-> NoReturn]
    /\ v_midcall = FALSE

VARIABLES
    k_conf,         \* conf.Cmd of the command: has deps, cache, cache_when
    k_defaults,     \* conf.project().defaults: cache, cache_when
    k_out           \* the cache and cache_when of the Runnable _make_runnable made

make_vars == <<k_conf, k_defaults, k_out>>

UNSET == "UNSET"
NoConf == [deps |-> FALSE, cache |-> UNSET, cache_when |-> UNSET]
NoDefaults == [cache |-> UNSET, cache_when |-> UNSET]
NotMade == [made |-> FALSE, cache |-> UNSET, cache_when |-> UNSET]

IdleMake ==
    /\ k_conf = NoConf
    /\ k_defaults = NoDefaults
    /\ k_out = NotMade

late_vars == <<venv_vars, make_vars>>

IdleLate ==
    /\ IdleVenv
    /\ IdleMake

\* the state of the parts of the program that were modelled last
tail_vars == <<build_vars, memo_vars, late_vars>>

IdleTail ==
    /\ IdleBuild
    /\ IdleMemo
    /\ IdleLate

VARIABLES
    d_prev,         \* Runnable.hash of each runnable before the last change
    finish_events,  \* the 'finish' events the logger got for each runnable
    run_pc,         \* where Runner.exec stands
    run_orig        \* orig_graph of Runner.exec, as its view

more_vars == <<d_prev, finish_events, run_pc, run_orig, tail_vars>>

\* no runnable is hashed with its Cmd deps
IdleMore ==
    /\ d_prev = << >>
    /\ finish_events = [n \in Nodes |-> 0]
    /\ run_pc = "idle"
    /\ run_orig = [none |-> TRUE, names |-> {}]
    /\ IdleTail

\* the state of the other parts of the program
ext_vars == <<err_vars, watch_vars, filter_vars, git_vars, load_vars, more_vars>>

\* the state outside the graph that a step of DAGPool.exec leaves alone
ext_rest == <<err_vars, watch_vars, filter_vars, git_vars, load_vars, d_prev, run_pc,
              run_orig, tail_vars>>

IdleExt ==
    /\ IdleErr
    /\ IdleWatch
    /\ IdleFilter
    /\ IdleGit
    /\ IdleLoad
    /\ IdleMore

\* Graph._dfs
RECURSIVE _dfs(_, _)
_dfs(graph, node) == UNION {{name} \cup _dfs(graph, name) : name \in graph[node]}

\* Graph._upstream, Graph._downstream
_upstream == [name \in Nodes |-> _dfs(graph_up, name)]
_downstream == [name \in Nodes |-> _dfs(graph_down, name)]

InView(name) == view.none \/ name \in view.names

\* Graph.nodes
nodes == {name \in Nodes : InView(name)}

\* a Graph.upstream that holds the direct deps only
upstream_direct == [name \in nodes |-> {dep \in graph_up[name] : InView(dep)}]

\* Graph.upstream
upstream == [name \in nodes |-> {dep \in _upstream[name] : InView(dep)}]

\* a DAGPool.downstream that is built from the direct deps only
downstream_direct(name) == {node \in DOMAIN upstream : name \in graph_up[node]}

\* a DAGPool.downstream that follows strict deps only
downstream_strict(name) ==
    {node \in DOMAIN upstream : name \in upstream[node] /\ name \in StrictCmds}

\* a DAGPool.downstream that holds every other node of the view
downstream_any(name) == DOMAIN upstream \ {name}

\* DAGPool.downstream, a defaultdict(set)
downstream(name) == {node \in DOMAIN upstream : name \in upstream[node]}

\* what the fingerprint of a runnable is during this run (its deps do not
\* change while the graph runs)
HashOf(name) == <<"fingerprint", name>>
LogOf(name) == Str(<<name, "LF">>)

\* the runnables of the graph: cached in the local backend, without artifacts
RunnableOf(name) ==
    [name |-> name, cache |-> "local", cache_when |-> cache_when, artifacts |-> {}]

\* a cache dir as an earlier run with the same fingerprint left it
WarmDir(name, code) ==
    [EmptyDir EXCEPT !.manifest = Manifest(name, HashOf(name), code, TRUE, {}),
                     !.out = Str(<<"cached", "LF">>)]

\* the runnable that is executed on its own: the versions of its deps, its
\* fingerprint at a version, the exit codes and logs of its command
Deps == {"d1", "d2"}
Fingerprint(d) == <<"fingerprint", d>>
ExecCodes == {0, 1}
Logs == {NoneStr, Str(<< >>), Str(<<"ok", "LF">>), Str(<<"50%", "CR", "100%", "LF">>)}

\* the content of an artifact that is built from the deps at version d
Built(d) == IF d = "d1" THEN "v1" ELSE "v2"

NoFiles == [p \in ArtPaths |-> NoFile]

\* the record of an operation.  op: "exec", "set" or "get"; hash: the
\* fingerprint when it began; before: the artifact files when it began; fs:
\* the cache directories when it began; wt: the artifact files when it ended
NoOp ==
    [op |-> "none", force |-> FALSE, ran |-> FALSE, stored |-> FALSE,
     result |-> NoResult, entry |-> NoEntry, hash |-> EmptyHash,
     before |-> NoFiles, fs |-> << >>, wt |-> NoFiles, missed |-> FALSE]

Graphs ==
    {g \in [Nodes -> SUBSET Nodes] :
        \A n \in Nodes : \A d \in g[n] : Index(d) < Index(n)}

InitDag ==
    /\ graph_up \in Graphs
    /\ graph_down = [d \in Nodes |->
                        {n \in Nodes : d \in graph_up[n] /\ d \in StrictCmds}]
    /\ view \in {[none |-> TRUE, names |-> {}]}
                  \cup {[none |-> FALSE, names |-> v] : v \in (SUBSET Nodes) \ {Nodes}}
    /\ workers \in 1..MaxWorkers
    /\ cache_when = "success"
    /\ cmd_code = [n \in Nodes |-> 0]
    /\ \E warm \in SUBSET Nodes :
          cache_fs = [bp \in {base_path("local", n, HashOf(n)) : n \in warm} |->
                         WarmDir(bp[2], 0)]
    /\ cache0 = cache_fs
    /\ remote_fs = << >>
    /\ worktree = [p \in ArtPaths |-> NoFile]
    /\ pc = "exec"
    /\ in_degree = << >>
    /\ results = << >>
    /\ failed = {}
    /\ futures = << >>
    /\ exception = FALSE
    /\ finished = {}
    /\ exit_code = 0
    /\ submits = [n \in Nodes |-> 0]
    /\ ran = {}
    /\ r_cache = "local"
    /\ r_artifacts = {}
    /\ deps_version = "d1"
    /\ step = "idle"
    /\ first = NoOp
    /\ second = NoOp
    /\ cleaned = FALSE
    /\ IdleHash
    /\ IdleExt

\* DAGPool.exec and the first lines of DAGPool._exec
Exec ==
    /\ pc = "exec"
    /\ IF nodes = {}
       THEN /\ pc' = "return"
            /\ UNCHANGED in_degree
       ELSE /\ pc' = "loop"
            /\ in_degree' = [name \in DOMAIN upstream |-> Cardinality(upstream[name])]
    /\ UNCHANGED <<ext_vars, hash_vars, cache_vars,
                   cache_fs, remote_fs, worktree, graph_up, graph_down, view,
                   workers, cache_when, cmd_code, cache0, results, failed, futures, exception,
                   finished, exit_code, submits, ran>>

\* a _skip that forgets to report the node
skip_unreported(st, name) ==
    [in_degree |-> Del(st.in_degree, name),
     failed |-> st.failed \cup {name},
     results |-> st.results,
     events |-> st.events]

\* a _skip that leaves the node in in_degree
skip_kept(st, name) ==
    [in_degree |-> st.in_degree,
     failed |-> st.failed \cup {name},
     results |-> Put(st.results, name, NoResult),
     events |-> [st.events EXCEPT ![name] = @ + 1]]

\* _skip(name), as the new values of in_degree, failed and results
skip_one(st, name) ==
    [in_degree |-> Del(st.in_degree, name),
     failed |-> st.failed \cup {name},
     results |-> Put(st.results, name, NoResult),
     events |-> [st.events EXCEPT ![name] = @ + 1]]

RECURSIVE skip_all(_, _)
skip_all(st, names) ==
    IF names = {} THEN st
    ELSE LET name == CHOOSE n \in names : TRUE
         IN  skip_all(skip_one(st, name), names \ {name})

\* the head of the while loop and the for loop over the ready tasks.  A ready
\* task with a failed upstream is skipped, which changes in_degree while the
\* generator iterates over it: Python raises RuntimeError at the next item.
Submit ==
    /\ pc = "loop"
    /\ IF DOMAIN in_degree = {}
       THEN /\ pc' = "cancel"
            /\ UNCHANGED <<in_degree, failed, results, futures, submits, exception,
                           finish_events>>
       ELSE LET ready == {name \in DOMAIN in_degree :
                             in_degree[name] = 0 /\ name \notin DOMAIN futures}
                bad == {name \in ready : upstream[name] \cap failed # {}}
            IN  IF bad = {}
                THEN /\ futures' = [name \in DOMAIN futures \cup ready |->
                                       IF name \in ready
                                       THEN [state |-> "pending", result |-> NoResult,
                                             raised |-> FALSE]
                                       ELSE futures[name]]
                     /\ submits' = [n \in Nodes |->
                                       IF n \in ready THEN submits[n] + 1 ELSE submits[n]]
                     /\ pc' = "wait"
                     /\ UNCHANGED <<in_degree, failed, results, exception,
                                    finish_events>>
                ELSE \E name \in bad :
                     LET st == skip_one([in_degree |-> in_degree, failed |-> failed,
                                         results |-> results,
                                         events |-> finish_events], name)
                     IN  /\ in_degree' = st.in_degree
                         /\ failed' = st.failed
                         /\ results' = st.results
                         /\ finish_events' = st.events
                         /\ exception' = TRUE
                         /\ pc' = "raised"
                         /\ UNCHANGED <<futures, submits>>
    /\ UNCHANGED <<ext_rest, hash_vars, cache_vars,
                   cache_fs, remote_fs, worktree, graph_up, graph_down, view,
                   workers, cache_when, cmd_code, cache0, finished, exit_code, ran>>

\* a worker thread of the pool takes a submitted task (at most `workers` run)
Start(name) ==
    /\ name \in DOMAIN futures
    /\ futures[name].state = "pending"
    /\ Cardinality({n \in DOMAIN futures : futures[n].state = "running"}) < workers
    /\ futures' = [futures EXCEPT ![name].state = "running"]
    /\ UNCHANGED <<ext_vars, hash_vars, cache_vars,
                   cache_fs, remote_fs, worktree, graph_up, graph_down, view,
                   workers, cache_when, cmd_code, cache0, pc, in_degree, results, failed,
                   exception, finished, exit_code, submits, ran>>

\* the worker finishes Runnable.exec of the task; the command, if it is run,
\* returns any of the exit codes
Complete(name) ==
    /\ name \in DOMAIN futures
    /\ futures[name].state = "running"
    /\ \E code \in Codes :
       \E o \in runnable_exec(RunnableOf(name), FALSE, cache_fs, remote_fs, worktree,
                              HashOf(name),
                              [code |-> code, log |-> LogOf(name),
                               wt |-> worktree, hash |-> HashOf(name)]) :
          /\ futures' = [futures EXCEPT ![name] =
                            [state |-> "done", result |-> o.result, raised |-> FALSE]]
          /\ cache_fs' = o.fs
          /\ remote_fs' = o.rfs
          /\ worktree' = o.wt
          /\ ran' = IF o.ran THEN ran \cup {name} ELSE ran
          /\ cmd_code' = IF o.ran THEN [cmd_code EXCEPT ![name] = code] ELSE cmd_code
          /\ finish_events' = [finish_events EXCEPT ![name] = @ + 1]
    /\ UNCHANGED <<ext_rest, hash_vars, cache_vars,
                   graph_up, graph_down, view, workers, cache_when,
                   cache0, pc, in_degree, results, failed, exception, finished, exit_code,
                   submits>>

\* a worker whose exception leaves DAGPool._exec at once
RaiseThrough(name) ==
    /\ name \in DOMAIN futures
    /\ futures[name].state = "running"
    /\ futures' = [futures EXCEPT ![name] =
                      [state |-> "done", result |-> NoResult, raised |-> TRUE]]
    /\ exception' = TRUE
    /\ pc' = "raised"
    /\ UNCHANGED <<ext_vars, hash_vars, cache_vars,
                   cache_fs, remote_fs, worktree, graph_up, graph_down, view,
                   workers, cache_when, cmd_code, cache0, in_degree, results, failed,
                   finished, exit_code, submits, ran>>

\* Runnable.exec ends in an exception that is not a RunnableError (a git
\* command of hash.globs fails, say): the future holds the exception
Raise(name) ==
    /\ name \in DOMAIN futures
    /\ futures[name].state = "running"
    /\ futures' = [futures EXCEPT ![name] =
                      [state |-> "done", result |-> NoResult, raised |-> TRUE]]
    /\ UNCHANGED <<ext_vars, hash_vars, cache_vars,
                   cache_fs, remote_fs, worktree, graph_up, graph_down, view,
                   workers, cache_when, cmd_code, cache0, pc, in_degree, results, failed,
                   exception, finished, exit_code, submits, ran>>

\* concurrent.futures.wait(..., FIRST_COMPLETED) and the break on no futures
Wait ==
    /\ pc = "wait"
    /\ IF DOMAIN futures = {}
       THEN /\ pc' = "cancel"
            /\ UNCHANGED finished
       ELSE /\ \E name \in DOMAIN futures : futures[name].state = "done"
            /\ finished' = {name \in DOMAIN futures : futures[name].state = "done"}
            /\ pc' = "finish"
    /\ UNCHANGED <<ext_vars, hash_vars, cache_vars,
                   cache_fs, remote_fs, worktree, graph_up, graph_down, view,
                   workers, cache_when, cmd_code, cache0, in_degree, results, failed, futures,
                   exception, exit_code, submits, ran>>

\* _finish(future) for one future of the finished set, or the end of the for
\* loop
Finish ==
    /\ pc = "finish"
    /\ IF finished = {}
       THEN /\ pc' = "loop"
            /\ UNCHANGED <<in_degree, results, failed, futures, exception, finished,
                           finish_events>>
       ELSE \E name \in finished :
            LET future == futures[name]
                result == IF future.raised THEN Result(Str(<<"exc">>), 1, EmptyHash)
                          ELSE future.result
                st0 == [in_degree |-> in_degree, failed |-> failed,
                        results |-> Put(results, name, result),
                        events |-> finish_events]
                st1 == IF result.code # 0
                       THEN skip_all([st0 EXCEPT !.failed = @ \cup {name}],
                                     downstream(name))
                       ELSE [st0 EXCEPT !.in_degree =
                                [dep \in DOMAIN @ |->
                                    IF dep \in downstream(name) THEN @[dep] - 1
                                    ELSE @[dep]]]
            IN  /\ in_degree' = Del(st1.in_degree, name)
                /\ results' = st1.results
                /\ failed' = st1.failed
                /\ finish_events' = st1.events
                /\ futures' = Del(futures, name)
                /\ exception' = (future.raised \/ exception)
                /\ finished' = finished \ {name}
                /\ pc' = "finish"
    /\ UNCHANGED <<ext_rest, hash_vars, cache_vars,
                   cache_fs, remote_fs, worktree, graph_up, graph_down, view,
                   workers, cache_when, cmd_code, cache0, exit_code, submits, ran>>

\* after the loop: the futures that are left are cancelled and reported None,
\* then the exception of a worker is raised or the results are returned
Cancel ==
    /\ pc = "cancel"
    /\ results' = [name \in DOMAIN results \cup DOMAIN futures |->
                      IF name \in DOMAIN futures THEN NoResult ELSE results[name]]
    /\ pc' = IF exception THEN "raised" ELSE "return"
    /\ UNCHANGED <<ext_vars, hash_vars, cache_vars,
                   cache_fs, remote_fs, worktree, graph_up, graph_down, view,
                   workers, cache_when, cmd_code, cache0, in_degree, failed, futures, exception,
                   finished, exit_code, submits, ran>>

\* max(iterable, default=0)
RECURSIVE max_code(_)
max_code(codes) ==
    IF codes = {} THEN 0
    ELSE CHOOSE c \in codes : \A d \in codes : d <= c

\* Runner.exec after DAGPool.exec returned
Return ==
    /\ pc = "return"
    /\ exit_code' = max_code({results[name].code :
                                 name \in {n \in DOMAIN results : results[n].isresult}})
    /\ pc' = "done"
    /\ UNCHANGED <<ext_vars, hash_vars, cache_vars,
                   cache_fs, remote_fs, worktree, graph_up, graph_down, view,
                   workers, cache_when, cmd_code, cache0, in_degree, results, failed, futures,
                   exception, finished, submits, ran>>

NextDag ==
    \/ Exec
    \/ Submit
    \/ \E name \in Nodes : Start(name)
    \/ \E name \in Nodes : Complete(name)
    \/ \E name \in Nodes : Raise(name)
    \/ Wait
    \/ Finish
    \/ Cancel
    \/ Return

vars == <<cache_fs, remote_fs, worktree, dag_vars, cache_vars, hash_vars, ext_vars>>

SpecDag == InitDag /\ [][NextDag]_vars


\* the thread of DAGPool.exec keeps running, the pool starts a pending task
\* when a worker is free, and every runnable that was started returns or
\* raises
MainThread == Exec \/ Submit \/ Wait \/ Finish \/ Cancel \/ Return

FairDag ==
    /\ WF_vars(MainThread)
    /\ \A name \in Nodes : WF_vars(Start(name))
    /\ \A name \in Nodes : WF_vars(Complete(name) \/ Raise(name))

\* a run that starts with an empty cache
InitDagCold == InitDag /\ cache_fs = << >>

SpecDagFair == InitDagCold /\ [][NextDag]_vars /\ FairDag

\* ============================================ one runnable and its cache
\* Runnable.exec, Cache.set and Cache.get of one runnable, "lint", with the
\* project directory changing between two operations.
TheName == "lint"
TheRunnable ==
    [name |-> TheName, cache |-> r_cache, cache_when |-> cache_when,
     artifacts |-> r_artifacts]

dag_rest == <<graph_up, graph_down, view, workers, cmd_code, cache0, pc, in_degree,
              results, failed, futures, exception, finished, exit_code, submits, ran>>

\* the cache as an earlier run left it when the deps were at version "d2":
\* an entry with a code that cache_when lets through
OldResult ==
    Result(Str(<<"old", "LF">>), IF cache_when = "failed" THEN 1 ELSE 0,
           Fingerprint("d2"))

\* no graph is run
IdleDag ==
    /\ graph_up = [n \in Nodes |-> {}]
    /\ graph_down = [n \in Nodes |-> {}]
    /\ view = [none |-> TRUE, names |-> {}]
    /\ workers = 1
    /\ cmd_code = [n \in Nodes |-> 0]
    /\ cache0 = << >>
    /\ pc = "idle"
    /\ in_degree = << >>
    /\ results = << >>
    /\ failed = {}
    /\ futures = << >>
    /\ exception = FALSE
    /\ finished = {}
    /\ exit_code = 0
    /\ submits = [n \in Nodes |-> 0]
    /\ ran = {}

InitCache ==
    /\ r_cache \in Backends
    /\ r_artifacts \in {{}, {"dist/a"}}
    /\ cache_when \in CacheWhens
    /\ deps_version = "d1"
    /\ worktree \in {w \in [ArtPaths -> {NoFile, "v1"}] :
                        \A p \in ArtPaths \ r_artifacts : w[p] = NoFile}
    /\ \E old \in BOOLEAN :
          LET cs == IF old
                    THEN cache_set(r_cache, << >>, << >>, worktree, TheName,
                                   r_artifacts, OldResult)
                    ELSE [fs |-> << >>, rfs |-> << >>]
          IN  cache_fs = cs.fs /\ remote_fs = cs.rfs
    /\ step = "first"
    /\ first = NoOp
    /\ second = NoOp
    /\ cleaned = FALSE
    /\ IdleDag
    /\ IdleHash
    /\ IdleExt

\* the operation is the first or the second of the two
Record(rec) ==
    IF step = "first"
    THEN first' = rec /\ second' = second /\ step' = "between"
    ELSE second' = rec /\ first' = first /\ step' = "done"

\* Runnable.exec, with or without ctx force.  If the command runs it returns
\* any code and log, may rewrite the files the runnable depends on (the
\* fingerprint of the result is taken after it) and builds the declared
\* artifacts from them.
RunExec ==
    /\ step \in {"first", "between"}
    /\ \E force \in BOOLEAN, code \in ExecCodes, log \in Logs, d \in Deps :
       \E o \in runnable_exec(TheRunnable, force, cache_fs, remote_fs, worktree,
                              Fingerprint(deps_version),
                              [code |-> code, log |-> log,
                               wt |-> [p \in ArtPaths |->
                                          IF p \in r_artifacts THEN Built(d)
                                          ELSE worktree[p]],
                               hash |-> Fingerprint(d)]) :
          /\ cache_fs' = o.fs
          /\ remote_fs' = o.rfs
          /\ worktree' = o.wt
          /\ deps_version' = IF o.ran THEN d ELSE deps_version
          /\ Record([op |-> "exec", force |-> force, ran |-> o.ran,
                     stored |-> o.stored, result |-> o.result, entry |-> o.got,
                     hash |-> Fingerprint(deps_version), before |-> worktree,
                     fs |-> cache_fs, wt |-> o.wt, missed |-> o.missed])
    /\ UNCHANGED <<r_cache, r_artifacts, cleaned, cache_when, dag_rest, hash_vars, ext_vars>>

\* Cache.set(runnable, result) of the runnable's backend with a result of the
\* current fingerprint
CacheSet ==
    /\ step = "first"
    /\ \E code \in ExecCodes, log \in Logs :
          LET result == Result(log, code, Fingerprint(deps_version))
              cs == cache_set(r_cache, cache_fs, remote_fs, worktree, TheName,
                              r_artifacts, result)
          IN  /\ cache_fs' = cs.fs
              /\ remote_fs' = cs.rfs
              /\ Record([op |-> "set", force |-> FALSE, ran |-> FALSE,
                         stored |-> TRUE, result |-> result, entry |-> NoEntry,
                         hash |-> Fingerprint(deps_version), before |-> worktree,
                         fs |-> cache_fs, wt |-> worktree, missed |-> FALSE])
    /\ UNCHANGED <<worktree, r_cache, r_artifacts, deps_version, cleaned, cache_when,
                   dag_rest, hash_vars, ext_vars>>

\* Cache.get(runnable) of the runnable's backend
CacheGet ==
    /\ step = "between"
    /\ \E g \in cache_get(r_cache, cache_fs, remote_fs, worktree, TheName,
                          Fingerprint(deps_version)) :
          /\ cache_fs' = g.fs
          /\ worktree' = g.wt
          /\ Record([op |-> "get", force |-> FALSE, ran |-> FALSE,
                     stored |-> FALSE, result |-> NoResult, entry |-> g.entry,
                     hash |-> Fingerprint(deps_version), before |-> worktree,
                     fs |-> cache_fs, wt |-> g.wt, missed |-> g.missed])
    /\ UNCHANGED <<remote_fs, r_cache, r_artifacts, deps_version, cleaned, cache_when,
                   dag_rest, hash_vars, ext_vars>>

\* between the operations: a file the runnable depends on is edited
EditDeps ==
    /\ step = "between"
    /\ \E d \in Deps \ {deps_version} : deps_version' = d
    /\ UNCHANGED <<cache_fs, remote_fs, worktree, r_cache, r_artifacts, step, first,
                   second, cleaned, cache_when, dag_rest, hash_vars, ext_vars>>

\* between the operations: an artifact file is rewritten or deleted
EditArtifact ==
    /\ step = "between"
    /\ \E p \in r_artifacts :
       \E c \in (Contents \cup {NoFile}) \ {worktree[p]} :
          worktree' = [worktree EXCEPT ![p] = c]
    /\ UNCHANGED <<cache_fs, remote_fs, r_cache, r_artifacts, deps_version, step, first,
                   second, cleaned, cache_when, dag_rest, hash_vars, ext_vars>>

\* between the operations: the private work dir (._qik, where the local and
\* S3 backends keep their entries) is removed; the repo cache dir stays
CleanLocal ==
    /\ step = "between"
    /\ ~cleaned
    /\ cleaned' = TRUE
    /\ cache_fs' = [bp \in {b \in DOMAIN cache_fs : b[1] = "repo"} |-> cache_fs[bp]]
    /\ UNCHANGED <<remote_fs, worktree, r_cache, r_artifacts, deps_version, step, first,
                   second, cache_when, dag_rest, hash_vars, ext_vars>>

NextCache ==
    \/ RunExec
    \/ CacheSet
    \/ CacheGet
    \/ EditDeps
    \/ EditArtifact
    \/ CleanLocal

SpecCache == InitCache /\ [][NextCache]_vars


\* ============================================== Cache.get on any cache dir
\* One Cache.get of the runnable "lint" on a cache dir in any state an
\* interrupted Cache.set, a removed file or a git checkout can leave: with or
\* without the manifest, the log and the copies of the artifacts.

\* the manifests of such a dir.  The dir of the local and the S3 backend has
\* the hash in its name, the one dir of the repo backend may hold the manifest
\* of another hash; only Local.set_artifacts lists artifacts
GetManifests(backend, artifacts) ==
    {NoManifest} \cup
    {Manifest(TheName, Fingerprint(d), 0, log, arts) :
        d \in IF backend = "repo" THEN Deps ELSE {"d1"},
        log \in BOOLEAN,
        arts \in IF backend \in {"local", "s3"} THEN {{}, artifacts} ELSE {{}}}

GetDirs(backend, artifacts) ==
    {[manifest |-> m, out |-> out, arts |-> a] :
        m \in GetManifests(backend, artifacts),
        out \in {NoneStr, Str(<<"ok", "LF">>)},
        a \in {f \in [ArtPaths -> {NoFile, "v1"}] :
                  \A p \in ArtPaths :
                     f[p] # NoFile => (p \in artifacts /\ backend \in {"local", "s3"})}}

InitGet ==
    /\ r_cache \in Backends
    /\ r_artifacts \in {{}, {"dist/a"}, ArtPaths}
    /\ cache_when = "success"
    /\ deps_version = "d1"
    /\ worktree = NoFiles
    /\ \E dir \in GetDirs(r_cache, r_artifacts) :
          cache_fs = IF r_cache = "none" \/ dir = EmptyDir THEN << >>
                     ELSE [bp \in {base_path(r_cache, TheName, Fingerprint("d1"))} |-> dir]
    /\ \E dir \in GetDirs(r_cache, r_artifacts) :
          remote_fs = IF r_cache # "s3" \/ dir = EmptyDir THEN << >>
                      ELSE [bp \in {remote_path(TheName, Fingerprint("d1"))} |-> dir]
    /\ step = "between"
    /\ first = NoOp
    /\ second = NoOp
    /\ cleaned = FALSE
    /\ IdleDag
    /\ IdleHash
    /\ IdleExt

SpecGet == InitGet /\ [][CacheGet]_vars

\* ============================================== Graph.filter_cache_status
\* filter_cache_status on the graph of the one runnable "lint", over the same
\* cache dirs.  Runnable.get_cache_entry(artifacts=False) hands the flag to
\* Cache.get(runnable, artifacts), which skips get_artifacts when it is false.

\* Cache.get._get_entry without get_artifacts
get_entry_manifest(backend, dir, wt, hash) ==
    LET m == dir.manifest
        log == IF m.log THEN Str(read_text(dir.out.text)) ELSE NoneStr
    IN  IF ~m.present \/ m.hash # hash \/ (m.log /\ ~dir.out.some)
        THEN [entry |-> NoEntry, wts |-> {wt}]
        ELSE [entry |-> Entry(m, log), wts |-> {wt}]

\* Cache.get(runnable, artifacts=False)
cache_get_manifest(backend, fs, rfs, wt, name, hash) ==
    IF backend = "none"
    THEN {[entry |-> NoEntry, fs |-> fs, wt |-> wt, missed |-> FALSE]}
    ELSE
    LET bp == base_path(backend, name, hash)
        g1 == get_entry_manifest(backend, DirAt(fs, bp), wt, hash)
    IN  IF g1.entry.found
        THEN {[entry |-> g1.entry, fs |-> fs, wt |-> wt, missed |-> FALSE]}
        ELSE IF backend # "s3"
        THEN {[entry |-> NoEntry, fs |-> fs, wt |-> wt, missed |-> TRUE]}
        ELSE LET fs2 == Put(fs, bp, download_dir(DirAt(fs, bp),
                                                 DirAt(rfs, remote_path(name, hash))))
                 g2 == get_entry_manifest(backend, DirAt(fs2, bp), wt, hash)
             IN  {[entry |-> g2.entry, fs |-> fs2, wt |-> wt, missed |-> TRUE]}

\* Runnable.get_cache_entry(artifacts)
get_cache_entry_artifacts(r, artifacts, force, fs, rfs, wt, hash) ==
    IF artifacts THEN get_cache_entry(r, force, fs, rfs, wt, hash)
    ELSE IF force THEN {[entry |-> NoEntry, fs |-> fs, wt |-> wt, missed |-> FALSE]}
    ELSE {[g EXCEPT !.entry = IF @.found /\ should_cache(r.cache_when, @.manifest.code)
                              THEN @ ELSE NoEntry] :
             g \in cache_get_manifest(r.cache, fs, rfs, wt, r.name, hash)}

\* a filter_cache_status that calls get_cache_entry() with its default
filter_cache_status_restoring(cache_status, r, force, fs, rfs, wt, hash) ==
    IF r.cache = "none"
    THEN {[view |-> {}, fs |-> fs, wt |-> wt]}
    ELSE {[view |-> IF g.entry.found = (cache_status = "warm") THEN {r.name} ELSE {},
           fs |-> g.fs, wt |-> g.wt] :
             g \in get_cache_entry_artifacts(r, TRUE, force, fs, rfs, wt, hash)}

\* Graph.filter_cache_status on the graph of runnable r: the view it returns
\* and the files it leaves.  A runnable of the backend "none" is not looked up.
filter_cache_status(cache_status, r, force, fs, rfs, wt, hash) ==
    IF r.cache = "none"
    THEN {[view |-> {}, fs |-> fs, wt |-> wt]}
    ELSE {[view |-> IF g.entry.found = (cache_status = "warm") THEN {r.name} ELSE {},
           fs |-> g.fs, wt |-> g.wt] :
             g \in get_cache_entry_artifacts(r, FALSE, force, fs, rfs, wt, hash)}

\* qik --cache-status warm or cold, with or without --force
FilterCacheStatus ==
    /\ f_out.op = "none"
    /\ \E cache_status \in {"warm", "cold"}, force \in BOOLEAN :
       \E o \in filter_cache_status(cache_status, TheRunnable, force, cache_fs,
                                    remote_fs, worktree, Fingerprint(deps_version)) :
          /\ cache_fs' = o.fs
          /\ worktree' = o.wt
          /\ f_out' = [op |-> "status", strategy |-> cache_status, changes |-> {},
                       raised |-> "none", view |-> o.view, force |-> force,
                       before |-> worktree]
    /\ UNCHANGED <<remote_fs, dag_vars, cache_vars, hash_vars, err_vars, watch_vars,
                   f_deps, f_lock, git_vars, load_vars, more_vars>>

SpecStatus == InitGet /\ [][FilterCacheStatus]_vars

\* ======================================================= the fingerprint
\* Runnable.hash of one runnable.  A str is a sequence of characters; a name,
\* a path or a version counts as one character.  Alphabet gives their order.
Alphabet ==
    <<"LF", "'", ",", "._qik/artifacts/lock", "0", "1", "2", "<", ">", "Cmd", "Const", "Glob", "Pydist", "Val", "[", "]",
      "a", "b", "build", "dist/a", "lint", "local", "none", "pkg", "repo", "s3",
      "src/x", "success", "failed", "finished", "test", "venv", "{", "}">>
Ord(c) == CHOOSE i \in DOMAIN Alphabet : Alphabet[i] = c

\* s < t of two str
RECURSIVE StrLess(_, _)
StrLess(s, t) ==
    IF t = << >> THEN FALSE
    ELSE IF s = << >> THEN TRUE
    ELSE IF Head(s) = Head(t) THEN StrLess(Tail(s), Tail(t))
    ELSE Ord(Head(s)) < Ord(Head(t))

RECURSIVE insort(_, _)
insort(x, l) ==
    IF l = << >> THEN <<x>>
    ELSE IF StrLess(Head(l), x) THEN <<Head(l)>> \o insort(x, Tail(l))
    ELSE <<x>> \o l

\* sorted(vals) of a list of str
RECURSIVE sorted(_)
sorted(vals) == IF vals = << >> THEN << >> ELSE insort(Head(vals), sorted(Tail(vals)))

\* "".join(parts)
RECURSIVE join(_)
join(parts) == IF parts = << >> THEN << >> ELSE Head(parts) \o join(Tail(parts))

\* a set as an argument list (*vals of a set), in the order Python iterates it
RECURSIVE ListOf(_)
ListOf(S) ==
    IF S = {} THEN << >>
    ELSE LET x == CHOOSE y \in S : TRUE IN <<x>> \o ListOf(S \ {x})

\* xxhash.xxh128_hexdigest, taken as collision-free: the digest of an input is
\* the input in brackets, so that joined digests can be told apart as joined
\* digests of a fixed length can
xxh128_hexdigest(input) == <<"<">> \o input \o <<">">>

\* a hash.strs that joins its arguments as they come
strs_unsorted(vals) == xxh128_hexdigest(join(vals))

\* hash.strs, hash.val
strs(vals) == xxh128_hexdigest(join(sorted(vals)))
val(input) == xxh128_hexdigest(input)

\* git hash-object of a file with content c
hash_object(c) == xxh128_hexdigest(<<c>>)

\* the paths of the project that a glob can match, as git ls-files orders them,
\* and the files below ._qik/artifacts/, which git ignores
Paths == <<"dist/a", "src/x">>
PrivPaths == <<"._qik/artifacts/lock">>
FileContents == {"1", "2"}

\* glob.startswith("._qik/artifacts")
is_priv(glob) == \E i \in DOMAIN PrivPaths : PrivPaths[i] = glob

\* a set built from a list, as the list of its elements in the order Python
\* iterates them: an order that is not the sorted one and that changes with
\* the order of insertion; the order of first insertion stands for it
RECURSIVE set_of(_)
set_of(vals) ==
    IF vals = << >> THEN << >>
    ELSE LET rest == set_of(SubSeq(vals, 1, Len(vals) - 1))
             x == vals[Len(vals)]
         IN  IF \E i \in DOMAIN rest : rest[i] = x THEN rest ELSE rest \o <<x>>

\* git hash-object of the files below ._qik/artifacts/ that the patterns
\* name, whether git tracks them or not: its stdout, one line for each
priv_artifact_hash(patterns) ==
    join([i \in DOMAIN patterns |-> hash_object(files[patterns[i][1]]) \o <<"LF">>])

\* git hash-object fails on a file that is missing: CalledProcessError
globs_raises(vals) ==
    \E i \in DOMAIN vals : is_priv(vals[i]) /\ files[vals[i]] = NoFile

\* the lines of git ls-files -cm: one for each file of the index that the
\* patterns match, with the hash of its content in the index, and one more
\* if the file of the work tree is modified or missing
RECURSIVE ls_files(_, _)
ls_files(paths, patterns) ==
    IF paths = << >> THEN << >>
    ELSE LET p == Head(paths)
             line == <<[path |-> p, objectname |-> hash_object(staged[p])]>>
         IN  (IF p \in patterns /\ p \in tracked
              THEN line \o (IF files[p] # staged[p] THEN line ELSE << >>)
              ELSE << >>) \o ls_files(Tail(paths), patterns)

\* the digest of forty zeros that stands for a file that is missing
ZeroHash == <<"0">>

\* modified_hashes_lines: git hash-object of a modified file of the work
\* tree, forty zeros if it is missing
modified_hash(p) == IF files[p] = NoFile THEN ZeroHash ELSE hash_object(files[p])

\* hashes maps each path of the lines to its objectname and each path that
\* has more than one line to its modified hash; repo_hash joins name and
\* hash of each
repo_hash(paths, patterns) ==
    LET lines == ls_files(paths, patterns)
        count(p) == Cardinality({i \in DOMAIN lines : lines[i].path = p})
    IN  join([i \in DOMAIN paths |->
                IF count(paths[i]) = 0 THEN << >>
                ELSE <<paths[i]>> \o (IF count(paths[i]) > 1
                                      THEN modified_hash(paths[i])
                                      ELSE hash_object(staged[paths[i]]))])

\* a hash.globs that hashes the names of the files and not their content
hash_globs_names_only(vals) ==
    IF vals = << >> THEN << >>
    ELSE xxh128_hexdigest(join([i \in DOMAIN Paths |->
                                  IF /\ \E j \in DOMAIN vals : Paths[i] = vals[j]
                                     /\ Paths[i] \in tracked
                                  THEN <<Paths[i]>> ELSE << >>]))

\* a hash.globs that hashes what the index holds and not the work tree
hash_globs_index_only(vals) ==
    IF vals = << >> THEN << >>
    ELSE xxh128_hexdigest(join([i \in DOMAIN Paths |->
                                  IF /\ \E j \in DOMAIN vals : Paths[i] = vals[j]
                                     /\ Paths[i] \in tracked
                                  THEN <<Paths[i]>> \o hash_object(staged[Paths[i]])
                                  ELSE << >>]))

\* hash.globs of the patterns *vals, where it does not raise
hash_globs(vals) ==
    IF vals = << >> THEN << >>
    ELSE LET globs_list == set_of([i \in DOMAIN vals |-> <<vals[i]>>])
             priv(g) == is_priv(g[1])
             repo(g) == ~is_priv(g[1])
             priv_artifact_patterns == sorted(SelectSeq(globs_list, priv))
             repo_patterns == sorted(SelectSeq(globs_list, repo))
         IN  xxh128_hexdigest(
                 (IF priv_artifact_patterns # << >>
                  THEN priv_artifact_hash(priv_artifact_patterns) ELSE << >>)
                 \o (IF repo_patterns # << >>
                     THEN repo_hash(Paths, {repo_patterns[i][1] :
                                              i \in DOMAIN repo_patterns})
                     ELSE << >>))

\* Venv.version
version(pydist) == <<pydist_version>>

\* hash.pydists
hash_pydists(vals) ==
    LET l == sorted(vals)
    IN  xxh128_hexdigest(join([i \in DOMAIN l |-> l[i] \o version(l[i])]))

\* the vals a Const dep of the runnable can have
ConstVals == {<<"a", "b", "a">>, <<"b", "a">>, <<"a", "b">>}

\* Runnable.deps: a Glob, a Cmd on the runnable "build", whose artifact is
\* dist/a, a Pydist, the Val dep if there is one, and the Const deps
Dep(type, v) == [type |-> type, val |-> v]
DepsList ==
    <<Dep("Glob", <<"src/x">>), Dep("Cmd", <<"build">>), Dep("Pydist", <<"pkg">>)>>
    \o (IF r_has_val THEN <<Dep("Val", <<"key">>)>> ELSE << >>)
    \o LET l == sorted(ListOf(r_consts)) IN [i \in DOMAIN l |-> Dep("Const", l[i])]

\* the runnable that is hashed, with the fields that matter here
HashedRunnable ==
    [name |-> <<"lint">>, cache |-> <<r_cache>>, cache_when |-> <<cache_when>>,
     deps |-> DepsList]

\* msgspec.json.encode of a str, of a dep (a tagged struct) and of a Runnable
json_str(v) == <<"'">> \o v \o <<"'">>
json_dep(d) ==
    <<"{", d.type, ",">> \o json_str(d.val)
    \o (IF d.type = "Load" THEN <<",", "[">> \o d.default \o <<"]">> ELSE << >>)
    \o <<"}">>
json_encode(r) ==
    <<"{">> \o json_str(r.name) \o <<",">> \o json_str(r.cache) \o <<",">>
    \o json_str(r.cache_when) \o <<",", "[">>
    \o join([i \in DOMAIN r.deps |-> json_dep(r.deps[i]) \o <<",">>]) \o <<"]", "}">>

\* msgspec.structs.replace(self, cache="", cache_when="")
replace(r) == [r EXCEPT !.cache = << >>, !.cache_when = << >>]

\* a spec_hash of the runnable as it is
spec_hash_as_is(r) == val(json_encode(r))

\* Runnable.spec_hash
spec_hash(r) == val(json_encode(replace(r)))

\* qik.dep.Load(val, default)
Load(v, default) == [type |-> "Load", val |-> v, default |-> default]

\* msgspec.json.encode of a Serialized, omit_defaults=True: a field that has
\* its default ([] for globs and pydists, None for hash) is left out
encode_serialized(ser) ==
    LET present == {f \in {"globs", "pydists"} : ser[f] # << >>}
                   \cup (IF ser.hash.some THEN {"hash"} ELSE {})
    IN  [f \in present |-> IF f = "hash" THEN ser.hash.text ELSE ser[f]]

\* msgspec.json.decode(..., type=Serialized): a field that is left out gets
\* its default
decode_serialized(json) ==
    [globs |-> IF "globs" \in DOMAIN json THEN json["globs"] ELSE << >>,
     pydists |-> IF "pydists" \in DOMAIN json THEN json["pydists"] ELSE << >>,
     hash |-> IF "hash" \in DOMAIN json THEN Str(json["hash"]) ELSE NoneStr]

\* Load.load: the Serialized of the file, None if the file is missing
\* (FileNotFoundError) or is no Serialized (msgspec.DecodeError)
load(d) ==
    IF l_file.state = "written"
    THEN [isnone |-> FALSE, deps |-> decode_serialized(l_file.json)]
    ELSE [isnone |-> TRUE, deps |-> decode_serialized(<< >>)]

\* a Load.globs that gives the default whatever the file holds
load_globs_default(d) == d.default

\* Load.globs, Load.pydists
load_globs(d) == LET deps == load(d) IN IF ~deps.isnone THEN deps.deps.globs ELSE d.default
load_pydists(d) == LET deps == load(d) IN IF ~deps.isnone THEN deps.deps.pydists ELSE << >>

\* Runnable.artifacts of the runnables of the command a Cmd dep names
cmd_artifacts(cmd) ==
    IF cmd = "build" THEN {"dist/a"} ELSE IF cmd = "test" THEN {"src/x"} ELSE {}

\* a DepsCollection.globs that takes the artifacts of the Cmd deps of the Cmd
\* deps as well
globs_transitive(r) ==
    {r.deps[i].val[1] : i \in {j \in DOMAIN r.deps : r.deps[j].type = "Glob"}}
    \cup UNION {cmd_artifacts(S) :
                  S \in UNION {{r.deps[i].val[1]} \cup _dfs(graph_up, r.deps[i].val[1]) :
                               i \in {j \in DOMAIN r.deps : r.deps[j].type = "Cmd"}}}

\* DepsCollection.consts (with Venv.const_deps, the serialized venv),
\* DepsCollection.globs (with the artifacts of the runnables of the Cmd deps),
\* DepsCollection.pydists
consts(r) ==
    {r.deps[i].val : i \in {j \in DOMAIN r.deps : r.deps[j].type = "Const"}}
    \cup {<<"venv">>}
globs(r) ==
    {r.deps[i].val[1] : i \in {j \in DOMAIN r.deps : r.deps[j].type = "Glob"}}
    \cup UNION {cmd_artifacts(r.deps[i].val[1]) :
                  i \in {j \in DOMAIN r.deps : r.deps[j].type = "Cmd"}}
    \cup UNION {LET l == load_globs(r.deps[i]) IN {l[k] : k \in DOMAIN l} :
                  i \in {j \in DOMAIN r.deps : r.deps[j].type = "Load"}}
pydists(r) ==
    {r.deps[i].val : i \in {j \in DOMAIN r.deps : r.deps[j].type = "Pydist"}}
    \cup UNION {LET l == load_pydists(r.deps[i]) IN {<<l[k]>> : k \in DOMAIN l} :
                  i \in {j \in DOMAIN r.deps : r.deps[j].type = "Load"}}

\* DepsCollection.vals: Val.vals raises NotImplementedError
vals_raises(r) == \E i \in DOMAIN r.deps : r.deps[i].type = "Val"

\* DepsCollection.hash
deps_hash(r) ==
    strs(<<strs(ListOf(consts(r))), strs(<< >>), hash_globs(ListOf(globs(r))),
           hash_pydists(ListOf(pydists(r)))>>)

\* the deps store_deps hashes: a Glob for each glob, a Pydist for each pydist
stored_deps(gl, pd) ==
    [deps |-> [i \in DOMAIN gl |-> Dep("Glob", <<gl[i]>>)]
              \o [i \in DOMAIN pd |-> Dep("Pydist", <<pd[i]>>)]]

\* a store_deps that hashes the globs and leaves the pydists out
store_deps_globs_only(gl, pd, h) ==
    [state |-> "written",
     json |-> encode_serialized(
                  [globs |-> gl, pydists |-> pd,
                   hash |-> IF h THEN Str(deps_hash(stored_deps(gl, << >>)))
                            ELSE NoneStr])]

\* Runnable.store_deps: the file it writes
store_deps(gl, pd, h) ==
    [state |-> "written",
     json |-> encode_serialized(
                  [globs |-> gl, pydists |-> pd,
                   hash |-> IF h THEN Str(deps_hash(stored_deps(gl, pd)))
                            ELSE NoneStr])]

\* Runnable.hash: the digest, or the NotImplementedError of a Val dep
runnable_hash(r) ==
    IF vals_raises(r) THEN [raised |-> TRUE, digest |-> << >>]
    ELSE [raised |-> FALSE, digest |-> strs(<<spec_hash(r), deps_hash(r)>>)]

InitHash ==
    /\ r_cache = "local"
    /\ cache_when = "success"
    /\ r_consts = {}
    /\ r_has_val \in BOOLEAN
    /\ tracked \in SUBSET {Paths[i] : i \in DOMAIN Paths}
    /\ staged = [f \in {Paths[i] : i \in DOMAIN Paths} |->
                    IF f \in tracked THEN "1" ELSE NoFile]
    /\ files = [f \in {Paths[i] : i \in DOMAIN Paths} |-> "1"]
    /\ pydist_version = "1"
    /\ val_value = "1"
    /\ prev_hash = NoHash
    /\ last_change = "init"
    /\ cache_fs = << >>
    /\ remote_fs = << >>
    /\ worktree = NoFiles
    /\ r_artifacts = {}
    /\ deps_version = "d1"
    /\ step = "idle"
    /\ first = NoOp
    /\ second = NoOp
    /\ cleaned = FALSE
    /\ IdleDag
    /\ IdleExt

\* every change keeps the fingerprint of before it
Changed(what) ==
    /\ prev_hash' = runnable_hash(HashedRunnable)
    /\ last_change' = what

hash_rest == <<cache_fs, remote_fs, worktree, r_artifacts, deps_version, step, first,
               second, cleaned, dag_rest, ext_vars>>

\* the cache of the runnable is configured differently
SetCache ==
    /\ \E c \in Backends \ {r_cache} : r_cache' = c
    /\ Changed("cache")
    /\ UNCHANGED <<cache_when, r_consts, r_has_val, tracked, staged, files, pydist_version,
                   val_value, hash_rest>>

\* cache_when of the runnable is configured differently
SetCacheWhen ==
    /\ \E w \in CacheWhens \ {cache_when} : cache_when' = w
    /\ Changed("cache_when")
    /\ UNCHANGED <<r_cache, r_consts, r_has_val, tracked, staged, files, pydist_version,
                   val_value, hash_rest>>

\* the content of one file that the globs match changes
EditFile ==
    /\ \E f \in DOMAIN files :
       \E c \in FileContents \ {files[f]} :
          /\ files' = [files EXCEPT ![f] = c]
          /\ Changed(f)
    /\ UNCHANGED <<r_cache, cache_when, r_consts, r_has_val, tracked, staged,
                   pydist_version, val_value, hash_rest>>

\* one Const dep is added, removed or replaced
ChangeConst ==
    /\ \E S \in SUBSET ConstVals :
          /\ S # r_consts
          /\ Cardinality(S \ r_consts) <= 1
          /\ Cardinality(r_consts \ S) <= 1
          /\ r_consts' = S
    /\ Changed("const")
    /\ UNCHANGED <<r_cache, cache_when, r_has_val, tracked, staged, files, pydist_version,
                   val_value, hash_rest>>

\* another version of the pydist is installed
InstallPydist ==
    /\ \E v \in FileContents \ {pydist_version} : pydist_version' = v
    /\ Changed("pydist")
    /\ UNCHANGED <<r_cache, cache_when, r_consts, r_has_val, tracked, staged, files,
                   val_value, hash_rest>>

\* the value the Val dep names changes in its file
EditVal ==
    /\ r_has_val
    /\ \E v \in FileContents \ {val_value} : val_value' = v
    /\ Changed("val")
    /\ UNCHANGED <<r_cache, cache_when, r_consts, r_has_val, tracked, staged, files,
                   pydist_version, hash_rest>>

NextHash ==
    \/ SetCache
    \/ SetCacheWhen
    \/ EditFile
    \/ ChangeConst
    \/ InstallPydist
    \/ EditVal

SpecHash == InitHash /\ [][NextHash]_vars

\* ============================================ a runnable whose deps fail
\* Runnable.exec of one runnable, "lint", that has a Pydist dep and whose
\* space has a dotenv file: Runnable.hash raises DistributionNotFound while
\* the distribution is not installed, the environment of the command raises
\* DotEnvNotFound while the dotenv file is missing.

\* qik.errors.fmt_msg of a RunnableError, by the code of the error
fmt_msg(code) == Str(<<code, "LF">>)

\* a Runnable._exec that hands the result of a failed lookup to cache_result
runnable_exec_raising_stored(r, force, fs, rfs, wt, hash, cmd, errs) ==
    IF ~force /\ r.cache # "none" /\ errs.lookup # "none"
    THEN LET result == Result(fmt_msg(errs.lookup), 1, EmptyHash)
             stores == should_cache(r.cache_when, 1)
             cs == IF stores
                   THEN cache_set(r.cache, fs, rfs, wt, r.name, r.artifacts, result)
                   ELSE [fs |-> fs, rfs |-> rfs]
         IN  {[raised |-> FALSE, error |-> errs.lookup, ran |-> FALSE,
               stored |-> stores, result |-> result,
               fs |-> cs.fs, rfs |-> cs.rfs, wt |-> wt]}
    ELSE { LET cache_entry == g.entry
               failed_cmd == errs.command # "none"
               code == IF failed_cmd THEN 1 ELSE cmd.code
               log == IF failed_cmd THEN fmt_msg(errs.command) ELSE cmd.log
               after == IF failed_cmd THEN g.wt ELSE cmd.wt
               result == Result(log, code, cmd.hash)
               stores == should_cache(r.cache_when, code)
               cs == IF stores
                     THEN cache_set(r.cache, g.fs, rfs, after, r.name, r.artifacts,
                                    result)
                     ELSE [fs |-> g.fs, rfs |-> rfs]
           IN  IF cache_entry.found
               THEN [raised |-> FALSE, error |-> "none", ran |-> FALSE,
                     stored |-> FALSE, result |-> from_cache(cache_entry),
                     fs |-> g.fs, rfs |-> rfs, wt |-> g.wt]
               ELSE IF errs.result # "none"
               THEN [raised |-> TRUE, error |-> errs.result, ran |-> ~failed_cmd,
                     stored |-> FALSE, result |-> NoResult,
                     fs |-> g.fs, rfs |-> rfs, wt |-> after]
               ELSE [raised |-> FALSE, error |-> errs.command, ran |-> ~failed_cmd,
                     stored |-> stores, result |-> result,
                     fs |-> cs.fs, rfs |-> cs.rfs, wt |-> after]
           : g \in get_cache_entry(r, force, fs, rfs, wt, hash) }

\* Runnable._exec with the RunnableErrors it meets.  errs = [lookup, command,
\* result] names the error ("none" for none) that Runnable.hash raises when
\* the cache is read, that the command raises, and that Runnable.hash raises
\* when the Result is built.  The except clauses cover get_cache_entry and
\* the body of _uncached_exec; Result(..., hash=self.hash()) is after them.
runnable_exec_raising(r, force, fs, rfs, wt, hash, cmd, errs) ==
    IF ~force /\ r.cache # "none" /\ errs.lookup # "none"
    THEN {[raised |-> FALSE, error |-> errs.lookup, ran |-> FALSE, stored |-> FALSE,
           result |-> Result(fmt_msg(errs.lookup), 1, EmptyHash),
           fs |-> fs, rfs |-> rfs, wt |-> wt]}
    ELSE { LET cache_entry == g.entry
               failed_cmd == errs.command # "none"
               code == IF failed_cmd THEN 1 ELSE cmd.code
               log == IF failed_cmd THEN fmt_msg(errs.command) ELSE cmd.log
               after == IF failed_cmd THEN g.wt ELSE cmd.wt
               result == Result(log, code, cmd.hash)
               stores == should_cache(r.cache_when, code)
               cs == IF stores
                     THEN cache_set(r.cache, g.fs, rfs, after, r.name, r.artifacts,
                                    result)
                     ELSE [fs |-> g.fs, rfs |-> rfs]
           IN  IF cache_entry.found
               THEN [raised |-> FALSE, error |-> "none", ran |-> FALSE,
                     stored |-> FALSE, result |-> from_cache(cache_entry),
                     fs |-> g.fs, rfs |-> rfs, wt |-> g.wt]
               ELSE IF errs.result # "none"
               THEN [raised |-> TRUE, error |-> errs.result, ran |-> ~failed_cmd,
                     stored |-> FALSE, result |-> NoResult,
                     fs |-> g.fs, rfs |-> rfs, wt |-> after]
               ELSE [raised |-> FALSE, error |-> errs.command, ran |-> ~failed_cmd,
                     stored |-> stores, result |-> result,
                     fs |-> cs.fs, rfs |-> cs.rfs, wt |-> after]
           : g \in get_cache_entry(r, force, fs, rfs, wt, hash) }

\* Venv.version raises DistributionNotFound for a distribution that is not
\* in the venv: the error of Runnable.hash
hash_error(installed) == IF installed THEN "none" ELSE "pydist0"

\* _read_dotenv raises DotEnvNotFound for a missing file: the error of
\* Runnable._exec_env
env_error(found) == IF found THEN "none" ELSE "space2"

InitErr ==
    /\ r_cache \in Backends
    /\ cache_when \in CacheWhens
    /\ dist_installed \in BOOLEAN
    /\ dotenv_found \in BOOLEAN
    /\ x_last = NoExec
    /\ r_artifacts = {}
    /\ deps_version = "d1"
    /\ worktree = NoFiles
    /\ \E old \in BOOLEAN :
          LET cs == IF old
                    THEN cache_set(r_cache, << >>, << >>, worktree, TheName, {},
                                   [OldResult EXCEPT !.hash = Fingerprint("d1")])
                    ELSE [fs |-> << >>, rfs |-> << >>]
          IN  cache_fs = cs.fs /\ remote_fs = cs.rfs
    /\ step = "idle"
    /\ first = NoOp
    /\ second = NoOp
    /\ cleaned = FALSE
    /\ IdleDag
    /\ IdleHash
    /\ IdleWatch
    /\ IdleFilter
    /\ IdleGit
    /\ IdleLoad
    /\ IdleMore

err_rest == <<worktree, r_cache, r_artifacts, deps_version, step, first, second, cleaned,
              cache_when, dag_rest, hash_vars, watch_vars, filter_vars, git_vars,
              load_vars, more_vars>>

\* Runnable.exec, with or without ctx force.  The command, if it runs, ends
\* with any code and may install or remove the distribution.
ExecErr ==
    /\ \E force \in BOOLEAN, code \in ExecCodes, installs \in BOOLEAN :
          LET runs == dotenv_found
              after == IF runs THEN installs ELSE dist_installed
              errs == [lookup |-> hash_error(dist_installed),
                       command |-> env_error(dotenv_found),
                       result |-> hash_error(after)]
          IN  \E o \in runnable_exec_raising(
                           TheRunnable, force, cache_fs, remote_fs, worktree,
                           Fingerprint(deps_version),
                           [code |-> code, log |-> LogOf(TheName), wt |-> worktree,
                            hash |-> Fingerprint(deps_version)], errs) :
                 /\ cache_fs' = o.fs
                 /\ remote_fs' = o.rfs
                 /\ dist_installed' = IF o.ran THEN installs ELSE dist_installed
                 /\ x_last' = [op |-> "exec", force |-> force, raised |-> o.raised,
                               error |-> o.error, ran |-> o.ran, stored |-> o.stored,
                               result |-> o.result]
    /\ UNCHANGED <<dotenv_found, err_rest>>

\* the distribution is installed or removed by hand
ChangeDist ==
    /\ dist_installed' = ~dist_installed
    /\ UNCHANGED <<cache_fs, remote_fs, dotenv_found, x_last, err_rest>>

\* the dotenv file is written or deleted
ChangeDotenv ==
    /\ dotenv_found' = ~dotenv_found
    /\ UNCHANGED <<cache_fs, remote_fs, dist_installed, x_last, err_rest>>

NextErr ==
    \/ ExecErr
    \/ ChangeDist
    \/ ChangeDotenv

SpecErr == InitErr /\ [][NextErr]_vars

\* ============================================================ the watcher
\* QikEventHandler (qik/watcher.py).  The observer thread calls on_any_event
\* for one event after the other; every restart_timer starts a
\* threading.Timer whose thread calls handle_events when it fires.  Both
\* hold QikEventHandler.lock, handle_events for the whole of Runner.exec.
\* Timer.cancel stops a timer that has not fired; a timer that fired and
\* waits for the lock runs handle_events all the same.

\* the root configuration file
ConfigPath == "qik.toml"

\* the paths of the events: files of the project, a hidden file, the config
\* file and the RECORD of a distribution that is installed in the venv
EventPaths == {"src/a.py", "src/b.py", ".git/index", ConfigPath, "venv/x-1.dist-info/RECORD"}

\* the path is below the site-packages dir of the active venv, not below cwd
InVenv(path) == path = "venv/x-1.dist-info/RECORD"

\* QikEventHandler.qik_file_re: no hidden file and no __pycache__
qik_file_re(path) == path # ".git/index"

\* _parse_pydist and qik.dep.Glob / qik.dep.Pydist: the dep of a change
ChangeOf(path) == IF InVenv(path) THEN "pydist:x" ELSE path

\* the event adds a dep to the change set
Accepted(path) == path # ConfigPath /\ (InVenv(path) \/ qik_file_re(path))

\* an on_any_event that keeps only the change of the last event
on_any_event_last(path, changes) ==
    [exit |-> path = ConfigPath,
     changes |-> IF Accepted(path) THEN {ChangeOf(path)} ELSE changes]

\* the body of QikEventHandler.on_any_event under the lock, for an event of
\* one of the four file event types: sys.exit(1) for the config file, else
\* the change is added if the path is accepted, and the timer is restarted
on_any_event(path, changes) ==
    [exit |-> path = ConfigPath,
     changes |-> IF Accepted(path) THEN changes \cup {ChangeOf(path)} ELSE changes]

\* QikEventHandler.handle_events: Runner.exec(changes) if there are changes
handle_events(changes) == [exec |-> changes # {}]

InitWatch ==
    /\ w_changes = {}
    /\ w_armed = FALSE
    /\ w_waiting = 0
    /\ w_lock = "free"
    /\ w_cur = "none"
    /\ w_state = "watching"
    /\ w_events = << >>
    /\ w_execs = << >>
    /\ r_cache = "local"
    /\ cache_when = "success"
    /\ cache_fs = << >>
    /\ remote_fs = << >>
    /\ worktree = NoFiles
    /\ r_artifacts = {}
    /\ deps_version = "d1"
    /\ step = "idle"
    /\ first = NoOp
    /\ second = NoOp
    /\ cleaned = FALSE
    /\ IdleDag
    /\ IdleHash
    /\ IdleErr
    /\ IdleFilter
    /\ IdleGit
    /\ IdleLoad
    /\ IdleMore

watch_rest == <<cache_fs, remote_fs, worktree, dag_vars, cache_vars, hash_vars, err_vars,
                filter_vars, git_vars, load_vars, more_vars>>

\* the observer thread takes the next event and on_any_event gets the lock
EventBegin ==
    /\ w_state = "watching"
    /\ w_lock = "free"
    /\ Len(w_events) < MaxEvents
    /\ \E path \in EventPaths :
          /\ w_cur' = path
          /\ w_events' = Append(w_events, [path |-> path, near |-> w_armed,
                                           execs |-> Len(w_execs)])
    /\ w_lock' = "event"
    /\ UNCHANGED <<w_changes, w_armed, w_waiting, w_state, w_execs, watch_rest>>

\* on_any_event runs and releases the lock.  sys.exit(1) raises SystemExit
\* in the observer thread, which ends that thread only: the timer is not
\* cancelled, and the process ends when the main thread finds the observer
\* dead (start).
EventEnd ==
    /\ w_lock = "event"
    /\ w_state = "watching"
    /\ LET o == on_any_event(w_cur, w_changes)
       IN  IF o.exit
           THEN /\ w_state' = "exiting"
                /\ UNCHANGED <<w_changes, w_armed>>
           ELSE /\ w_changes' = o.changes
                /\ w_armed' = TRUE
                /\ UNCHANGED w_state
    /\ w_lock' = "free"
    /\ w_cur' = "none"
    /\ UNCHANGED <<w_waiting, w_events, w_execs, watch_rest>>

\* the interval of the timer is over: its thread calls handle_events
Fire ==
    /\ w_state \in {"watching", "exiting"}
    /\ w_armed
    /\ w_armed' = FALSE
    /\ w_waiting' = w_waiting + 1
    /\ UNCHANGED <<w_changes, w_lock, w_cur, w_state, w_events, w_execs, watch_rest>>

\* handle_events gets the lock: it calls Runner.exec with the change set,
\* or returns at once if there is no change
HandleEvents ==
    /\ w_state \in {"watching", "exiting"}
    /\ w_waiting > 0
    /\ w_lock = "free"
    /\ w_waiting' = w_waiting - 1
    /\ IF handle_events(w_changes).exec
       THEN /\ w_lock' = "run"
            /\ w_execs' = Append(w_execs, [changes |-> w_changes,
                                           upto |-> Len(w_events),
                                           exiting |-> w_state = "exiting"])
       ELSE UNCHANGED <<w_lock, w_execs>>
    /\ UNCHANGED <<w_changes, w_armed, w_cur, w_state, w_events, watch_rest>>

\* Runner.exec returns: the change set is emptied, the lock released
RunDone ==
    /\ w_state \in {"watching", "exiting"}
    /\ w_lock = "run"
    /\ w_changes' = {}
    /\ w_lock' = "free"
    /\ UNCHANGED <<w_armed, w_waiting, w_cur, w_state, w_events, w_execs, watch_rest>>

\* start: the main thread finds the observer thread dead and returns, and
\* the process ends
ProcessExit ==
    /\ w_state = "exiting"
    /\ w_state' = "exited"
    /\ UNCHANGED <<w_changes, w_armed, w_waiting, w_lock, w_cur, w_events, w_execs,
                   watch_rest>>

NextWatch ==
    \/ EventBegin
    \/ EventEnd
    \/ Fire
    \/ HandleEvents
    \/ RunDone
    \/ ProcessExit

SpecWatch == InitWatch /\ [][NextWatch]_vars


\* Runner.exec raises (DAGPool.exec re-raises the exception of a worker, or
\* filter_changes raises): handle_events is left before self.changes = set(),
\* the with statement releases the lock and the thread of the timer ends
RunRaises ==
    /\ w_state \in {"watching", "exiting"}
    /\ w_lock = "run"
    /\ w_lock' = "free"
    /\ UNCHANGED <<w_changes, w_armed, w_waiting, w_cur, w_state, w_events, w_execs,
                   watch_rest>>

NextWatchAll ==
    \/ NextWatch
    \/ RunRaises

\* the watcher with runs that return and runs that raise
SpecWatchAll == InitWatch /\ [][NextWatchAll]_vars

\* ================================================= the filter by changes
\* Graph.filter_changes and Graph.filter (qik/runner.py) on a graph whose
\* runnables declare one dep each.  A path and a glob pattern are sequences
\* of pieces of text; the piece "*" of a pattern is the wildcard.

\* fnmatch of a path against a pattern: _glob_to_regex anchors the translated
\* pattern at both ends of a line, "*" matches any run of characters, "/"
\* included
RECURSIVE fnmatch(_, _)
fnmatch(path, pattern) ==
    IF pattern = << >> THEN path = << >>
    ELSE IF Head(pattern) = "*"
    THEN fnmatch(path, Tail(pattern))
         \/ (path # << >> /\ fnmatch(Tail(path), pattern))
    ELSE path # << >> /\ Head(path) = Head(pattern)
         /\ fnmatch(Tail(path), Tail(pattern))

\* the lock file of the venv
LockFile == <<"requirements.txt">>

\* the files that can change and the distribution that can be installed
ChangedPaths == {<<"src/", "a.py">>, <<"qik.toml">>, LockFile}
GlobChanges == {Dep("Glob", path) : path \in ChangedPaths}
PydistChanges == {Dep("Pydist", <<"x">>)}

\* the dep of a runnable: Glob("src/*"), Pydist("x") or a Const
DepKinds == {"Glob", "Pydist", "Const"}

\* Dep.globs, Dep.pydists and Dep.watch of the dep of a kind
dep_globs(kind) == IF kind = "Glob" THEN {<<"src/", "*">>} ELSE {}
dep_pydists(kind) == IF kind = "Pydist" THEN {<<"x">>} ELSE {}
dep_watch(kind) == dep_globs(kind)

\* Dep.since: Pydist.since raises LockFileNotFound without a lock file,
\* Const.since is the config file, every other dep has the globs it watches
dep_since(kind, lock) ==
    IF kind = "Pydist"
    THEN [raised |-> ~lock, globs |-> IF lock THEN {LockFile} ELSE {}]
    ELSE IF kind = "Const" THEN [raised |-> FALSE, globs |-> {<<"*", "qik.toml">>}]
    ELSE [raised |-> FALSE, globs |-> dep_watch(kind)]

\* Runnable.filter_regex: the patterns of the regex (None if there is none)
filter_regex(kind, strategy, lock) ==
    IF strategy = "since" THEN dep_since(kind, lock)
    ELSE [raised |-> FALSE, globs |-> dep_watch(kind)]

\* regex.search(globs) on the changed paths, one a line
regex_search(patterns, paths) ==
    \E path \in paths, pattern \in patterns : fnmatch(path, pattern)

\* a Graph.filter that keeps the given runnables only
filter_matched_only(runnables) ==
    [raised |-> "none", view |-> runnables]

\* Graph.filter with neighbors: the view is the runnables, then the upstream
\* of the view, then the downstream of the view as it is by then.
\* Graph._upstream and Graph._downstream have the nodes of the graph that is
\* filtered as keys, so a runnable outside of them raises KeyError.
filter(runnables) ==
    LET view1 == runnables \cap Nodes
        view2 == view1 \cup UNION {_upstream[runnable] : runnable \in view1}
        view3 == view2 \cup UNION {_downstream[runnable] : runnable \in view2}
    IN  IF view2 \subseteq nodes
        THEN [raised |-> "none", view |-> view3]
        ELSE [raised |-> "KeyError", view |-> {}]

\* Graph.filter_changes
filter_changes(deps, strategy) ==
    LET paths == {change.val : change \in {d \in deps : d.type = "Glob"}}
        dists == {change.val : change \in {d \in deps : d.type = "Pydist"}}
        regex == [runnable \in nodes |-> filter_regex(f_deps[runnable], strategy, f_lock)]
        by_globs == IF paths = {} THEN {}
                    ELSE {runnable \in nodes : regex_search(regex[runnable].globs, paths)}
        by_pydists == {runnable \in nodes : dep_pydists(f_deps[runnable]) \cap dists # {}}
    IN  IF paths # {} /\ \E runnable \in nodes : regex[runnable].raised
        THEN [raised |-> "LockFileNotFound", view |-> {}]
        ELSE filter(by_globs \cup by_pydists)

InitFilter ==
    /\ graph_up \in Graphs
    /\ graph_down = [d \in Nodes |->
                        {n \in Nodes : d \in graph_up[n] /\ d \in StrictCmds}]
    /\ view \in {[none |-> TRUE, names |-> {}]}
                  \cup {[none |-> FALSE, names |-> v] : v \in (SUBSET Nodes) \ {Nodes}}
    /\ f_deps \in [Nodes -> DepKinds]
    /\ f_lock \in BOOLEAN
    /\ f_out = NoFilter
    /\ workers = 1
    /\ cache_when = "success"
    /\ cmd_code = [n \in Nodes |-> 0]
    /\ cache0 = << >>
    /\ pc = "idle"
    /\ in_degree = << >>
    /\ results = << >>
    /\ failed = {}
    /\ futures = << >>
    /\ exception = FALSE
    /\ finished = {}
    /\ exit_code = 0
    /\ submits = [n \in Nodes |-> 0]
    /\ ran = {}
    /\ cache_fs = << >>
    /\ remote_fs = << >>
    /\ worktree = NoFiles
    /\ r_cache = "local"
    /\ r_artifacts = {}
    /\ deps_version = "d1"
    /\ step = "idle"
    /\ first = NoOp
    /\ second = NoOp
    /\ cleaned = FALSE
    /\ IdleHash
    /\ IdleErr
    /\ IdleWatch
    /\ IdleGit
    /\ IdleLoad
    /\ IdleMore

filter_rest == <<cache_fs, remote_fs, worktree, dag_vars, cache_vars, hash_vars, err_vars,
                 watch_vars, git_vars, load_vars, more_vars, f_deps, f_lock>>

\* Graph.filter_since: the changes are the files git diff names
FilterSince ==
    /\ \E changes \in SUBSET GlobChanges :
          LET o == filter_changes(changes, "since")
          IN  f_out' = [op |-> "filter", strategy |-> "since", changes |-> changes,
                        raised |-> o.raised, view |-> o.view]
    /\ UNCHANGED filter_rest

\* Runner.exec(changes) of the watcher: the changes are files and installed
\* distributions, and there is one at least
FilterWatch ==
    /\ \E changes \in (SUBSET (GlobChanges \cup PydistChanges)) \ {{}} :
          LET o == filter_changes(changes, "watch")
          IN  f_out' = [op |-> "filter", strategy |-> "watch", changes |-> changes,
                        raised |-> o.raised, view |-> o.view]
    /\ UNCHANGED filter_rest

NextFilter ==
    \/ FilterSince
    \/ FilterWatch

SpecFilter == InitFilter /\ [][NextFilter]_vars

\* ============================================================ Runner.exec
\* Runner.exec(changes) of one Runner, call after call as the watcher makes
\* them.  view is the view of Runner.graph.  DAGPool.exec returns, or it
\* raises the exception of a worker after its loop.

InitRunner ==
    /\ graph_up \in Graphs
    /\ graph_down = [d \in Nodes |->
                        {n \in Nodes : d \in graph_up[n] /\ d \in StrictCmds}]
    /\ view \in {[none |-> TRUE, names |-> {}]}
                  \cup {[none |-> FALSE, names |-> v] : v \in (SUBSET Nodes) \ {Nodes}}
    /\ f_deps \in [Nodes -> {"Glob", "Pydist"}]
    /\ f_lock = TRUE
    /\ f_out = NoFilter
    /\ run_pc = "idle"
    /\ run_orig = view
    /\ d_prev = << >>
    /\ finish_events = [n \in Nodes |-> 0]
    /\ IdleTail
    /\ workers = 1
    /\ cache_when = "success"
    /\ cmd_code = [n \in Nodes |-> 0]
    /\ cache0 = << >>
    /\ pc = "idle"
    /\ in_degree = << >>
    /\ results = << >>
    /\ failed = {}
    /\ futures = << >>
    /\ exception = FALSE
    /\ finished = {}
    /\ exit_code = 0
    /\ submits = [n \in Nodes |-> 0]
    /\ ran = {}
    /\ cache_fs = << >>
    /\ remote_fs = << >>
    /\ worktree = NoFiles
    /\ r_cache = "local"
    /\ r_artifacts = {}
    /\ deps_version = "d1"
    /\ step = "idle"
    /\ first = NoOp
    /\ second = NoOp
    /\ cleaned = FALSE
    /\ IdleHash
    /\ IdleErr
    /\ IdleWatch
    /\ IdleGit
    /\ IdleLoad

runner_rest == <<cache_fs, remote_fs, worktree, graph_up, graph_down, workers, cache_when,
                 cmd_code, cache0, pc, in_degree, results, failed, futures, exception,
                 finished, exit_code, submits, ran, cache_vars, hash_vars, err_vars,
                 watch_vars, filter_vars, git_vars, load_vars, d_prev, finish_events,
                 build_vars, late_vars>>

\* clear_per_run_cache: cache_clear() of every per_run_cache function, and
\* the attribute of every registered pair is deleted from its dict; the list
\* of the pairs stays as it is
clear_per_run_cache ==
    /\ m_func' = NoMemo
    /\ m_prop' = IF m_reg THEN NoMemo ELSE m_prop
    /\ UNCHANGED <<m_reg, m_ret>>

\* what is memoized when a run begins was not computed by it
Aged(memo) == IF memo = NoMemo THEN NoMemo ELSE "before"

\* Runner.exec up to DAGPool(graph=self.graph).exec(): orig_graph is kept and
\* self.graph becomes the graph filtered by the changes, if there are any
RunnerExec ==
    /\ run_pc \in {"idle", "returned", "raised"}
    /\ \E changes \in SUBSET (GlobChanges \cup PydistChanges) :
          LET o == filter_changes(changes, "watch")
          IN  /\ run_orig' = view
              /\ IF changes = {}
                 THEN run_pc' = "pool" /\ UNCHANGED view
                 ELSE IF o.raised # "none"
                 THEN run_pc' = "raised" /\ UNCHANGED view
                 ELSE /\ run_pc' = "pool"
                      /\ view' = [none |-> FALSE, names |-> o.view]
              /\ IF changes # {} /\ o.raised # "none"
                 THEN clear_per_run_cache
                 ELSE /\ m_func' = Aged(m_func)
                      /\ m_prop' = Aged(m_prop)
                      /\ UNCHANGED <<m_reg, m_ret>>
    /\ UNCHANGED runner_rest

\* DAGPool.exec returns the results: self.graph = orig_graph, the code is
\* returned
PoolReturns ==
    /\ run_pc = "pool"
    /\ view' = run_orig
    /\ run_pc' = "returned"
    /\ clear_per_run_cache
    /\ UNCHANGED <<run_orig, runner_rest>>

\* a Runner.exec without the finally clause
PoolRaises_no_finally ==
    /\ run_pc = "pool"
    /\ nodes # {}
    /\ run_pc' = "raised"
    /\ UNCHANGED <<view, run_orig, runner_rest, memo_vars>>

\* DAGPool.exec raises the exception of a worker: Runner.exec is left through
\* its finally clause, which clears the per-run cache
PoolRaises ==
    /\ run_pc = "pool"
    /\ nodes # {}
    /\ run_pc' = "raised"
    /\ clear_per_run_cache
    /\ UNCHANGED <<view, run_orig, runner_rest>>

\* a runnable of the run calls a per_run_cache function: functools.cache
\* returns what it holds or computes and keeps the value
CallCached ==
    /\ run_pc = "pool"
    /\ nodes # {}
    /\ m_func' = IF m_func = NoMemo THEN "now" ELSE m_func
    /\ m_ret' = m_func'
    /\ UNCHANGED <<view, run_pc, run_orig, runner_rest, m_prop, m_reg>>

\* a runnable of the run reads a per_run_cached_property:
\* per_run_cached_property.__get__ returns the attribute of the dict, or
\* computes it, sets it and appends the pair to _RUN_CACHED_PROPS
GetProperty ==
    /\ run_pc = "pool"
    /\ nodes # {}
    /\ m_prop' = IF m_prop = NoMemo THEN "now" ELSE m_prop
    /\ m_reg' = (m_reg \/ m_prop = NoMemo)
    /\ m_ret' = m_prop'
    /\ UNCHANGED <<view, run_pc, run_orig, runner_rest, m_func>>

NextRunner ==
    \/ RunnerExec
    \/ PoolReturns
    \/ PoolRaises
    \/ CallCached
    \/ GetProperty

SpecRunner == InitRunner /\ [][NextRunner]_vars

\* ==================================================== the git repository
\* hash.globs of a list of patterns while files are written and deleted in
\* the work tree and are staged, removed from the index and committed.  The
\* files below ._qik/artifacts/ are never in the index.

\* what hash.globs(*vals) gives: a digest, or it raises
globs_result(vals) ==
    IF globs_raises(vals) THEN [raised |-> TRUE, digest |-> << >>]
    ELSE [raised |-> FALSE, digest |-> hash_globs(vals)]

\* the lists of patterns hash.globs is called with
GlobArgs ==
    {<< >>, <<"src/x">>, <<"src/x", "dist/a">>, <<"._qik/artifacts/lock", "src/x">>}

RepoPaths == {Paths[i] : i \in DOMAIN Paths}
AllPaths == RepoPaths \cup {PrivPaths[i] : i \in DOMAIN PrivPaths}

InitGit ==
    /\ g_args \in GlobArgs
    /\ g_clean = TRUE
    /\ g_prev = NoHash
    /\ g_last = NoGit
    /\ tracked = {"src/x"}
    /\ staged = [f \in RepoPaths |-> IF f \in tracked THEN "1" ELSE NoFile]
    /\ files = [f \in AllPaths |-> IF f \in tracked THEN "1" ELSE NoFile]
    /\ r_consts = {}
    /\ r_has_val = FALSE
    /\ pydist_version = "1"
    /\ val_value = "1"
    /\ prev_hash = NoHash
    /\ last_change = "idle"
    /\ r_cache = "local"
    /\ cache_when = "success"
    /\ cache_fs = << >>
    /\ remote_fs = << >>
    /\ worktree = NoFiles
    /\ r_artifacts = {}
    /\ deps_version = "d1"
    /\ step = "idle"
    /\ first = NoOp
    /\ second = NoOp
    /\ cleaned = FALSE
    /\ IdleDag
    /\ IdleErr
    /\ IdleWatch
    /\ IdleFilter
    /\ IdleLoad
    /\ IdleMore

git_rest == <<r_cache, cache_when, r_consts, r_has_val, pydist_version, val_value,
              prev_hash, last_change, cache_fs, remote_fs, worktree, r_artifacts,
              deps_version, step, first, second, cleaned, dag_rest, err_vars,
              watch_vars, filter_vars, load_vars, more_vars, g_args>>

\* every operation keeps what hash.globs gave before it
Did(op, path) ==
    /\ g_prev' = globs_result(g_args)
    /\ g_last' = [op |-> op, path |-> path, tracked |-> path \in tracked]

\* a file of the work tree is created or gets another content
WriteFile ==
    /\ \E f \in AllPaths :
       \E c \in FileContents \ {files[f]} :
          /\ files' = [files EXCEPT ![f] = c]
          /\ Did("write", f)
    /\ UNCHANGED <<tracked, staged, g_clean, git_rest>>

\* a file of the work tree is deleted
Unlink ==
    /\ \E f \in AllPaths :
          /\ files[f] # NoFile
          /\ files' = [files EXCEPT ![f] = NoFile]
          /\ Did("unlink", f)
    /\ UNCHANGED <<tracked, staged, g_clean, git_rest>>

\* git add of a file that exists: the index takes its content
GitAdd ==
    /\ \E f \in RepoPaths :
          /\ files[f] # NoFile
          /\ files[f] # staged[f]
          /\ tracked' = tracked \cup {f}
          /\ staged' = [staged EXCEPT ![f] = files[f]]
          /\ Did("add", f)
    /\ g_clean' = FALSE
    /\ UNCHANGED <<files, git_rest>>

\* git rm --cached of a file, or git add of a file that is missing: the
\* file leaves the index
GitRm ==
    /\ \E f \in tracked :
          /\ tracked' = tracked \ {f}
          /\ staged' = [staged EXCEPT ![f] = NoFile]
          /\ Did("rm", f)
    /\ g_clean' = FALSE
    /\ UNCHANGED <<files, git_rest>>

\* git commit of what is staged: the index stays as it is
GitCommit ==
    /\ ~g_clean
    /\ g_clean' = TRUE
    /\ Did("commit", "none")
    /\ UNCHANGED <<tracked, staged, files, git_rest>>

NextGit ==
    \/ WriteFile
    \/ Unlink
    \/ GitAdd
    \/ GitRm
    \/ GitCommit

SpecGit == InitGit /\ [][NextGit]_vars

\* ================================================ the order of arguments
\* hash.strs, hash.pydists and hash.globs of a list of str that grows, and the
\* DepsCollection of the deps that the list declares, in a repository that
\* stays as it is

\* the str a dep is declared with: paths, distributions and consts
ArgVals == {"src/x", "dist/a", "._qik/artifacts/lock", "pkg", "a"}

\* the dep a str declares
DepOf(v) ==
    IF v \in AllPaths THEN Dep("Glob", <<v>>)
    ELSE IF v = "pkg" THEN Dep("Pydist", <<v>>)
    ELSE Dep("Const", <<v>>)

\* a runnable with the deps the list declares, in the order of the list
Declared(l) ==
    [name |-> <<"lint">>, cache |-> <<"repo">>, cache_when |-> <<"success">>,
     deps |-> [i \in DOMAIN l |-> DepOf(l[i])]]

InitArgs ==
    /\ g_args = << >>
    /\ g_clean = TRUE
    /\ g_prev = NoHash
    /\ g_last = NoGit
    /\ tracked = RepoPaths
    /\ staged = [f \in RepoPaths |-> "1"]
    /\ \E c \in FileContents, l \in {NoFile, "1"} :
          files = [f \in AllPaths |-> IF f = "src/x" THEN c
                                      ELSE IF f \in RepoPaths THEN "1" ELSE l]
    /\ r_consts = {}
    /\ r_has_val = FALSE
    /\ pydist_version = "1"
    /\ val_value = "1"
    /\ prev_hash = NoHash
    /\ last_change = "idle"
    /\ r_cache = "local"
    /\ cache_when = "success"
    /\ cache_fs = << >>
    /\ remote_fs = << >>
    /\ worktree = NoFiles
    /\ r_artifacts = {}
    /\ deps_version = "d1"
    /\ step = "idle"
    /\ first = NoOp
    /\ second = NoOp
    /\ cleaned = FALSE
    /\ IdleDag
    /\ IdleErr
    /\ IdleWatch
    /\ IdleFilter
    /\ IdleLoad
    /\ IdleMore

\* one more str is passed, one more dep is declared
AppendArg ==
    /\ Len(g_args) < MaxArgs
    /\ \E v \in ArgVals : g_args' = Append(g_args, v)
    /\ UNCHANGED <<tracked, staged, files, g_clean, g_prev, g_last, r_cache, cache_when,
                   r_consts, r_has_val, pydist_version, val_value, prev_hash,
                   last_change, cache_fs, remote_fs, worktree, r_artifacts,
                   deps_version, step, first, second, cleaned, dag_rest, err_vars,
                   watch_vars, filter_vars, load_vars, more_vars>>

NextArgs == AppendArg

SpecArgs == InitArgs /\ [][NextArgs]_vars

\* ============================================================ the Load dep
\* A runnable "analyze" whose only dep is Load(lock, default) and a runnable
\* "lock" of the same venv and space that writes the lock file with
\* Runnable.store_deps, while tracked files are edited and another version of
\* the distribution is installed.

\* the default globs of the Load dep and the lists store_deps can be called with
DefaultGlobs == <<"src/x", "dist/a">>
NarrowGlobs == {<< >>, <<"src/x">>, <<"dist/a", "src/x">>}
NarrowPydists == {<< >>, <<"pkg">>}

\* the runnable that consumes the Load dep
Consumer ==
    [name |-> <<"analyze">>, cache |-> <<r_cache>>, cache_when |-> <<cache_when>>,
     deps |-> <<Load(<<"._qik/artifacts/lock">>, DefaultGlobs)>>]

InitLoad ==
    /\ l_file = NoSerialized
    /\ l_written = NoStore
    /\ tracked = RepoPaths
    /\ staged = [f \in RepoPaths |-> "1"]
    /\ files = [f \in RepoPaths |-> "1"]
    /\ pydist_version = "1"
    /\ prev_hash = NoHash
    /\ last_change = "init"
    /\ r_consts = {}
    /\ r_has_val = FALSE
    /\ val_value = "1"
    /\ r_cache = "local"
    /\ cache_when = "success"
    /\ cache_fs = << >>
    /\ remote_fs = << >>
    /\ worktree = NoFiles
    /\ r_artifacts = {}
    /\ deps_version = "d1"
    /\ step = "idle"
    /\ first = NoOp
    /\ second = NoOp
    /\ cleaned = FALSE
    /\ IdleDag
    /\ IdleErr
    /\ IdleWatch
    /\ IdleFilter
    /\ IdleGit
    /\ IdleMore

load_rest == <<tracked, staged, r_consts, r_has_val, val_value, r_cache, cache_when,
               cache_fs, remote_fs, worktree, r_artifacts, deps_version, step, first,
               second, cleaned, dag_rest, err_vars, watch_vars, filter_vars, git_vars,
               more_vars>>

\* every step keeps the fingerprint the consumer had before it
Stepped(what) ==
    /\ prev_hash' = runnable_hash(Consumer)
    /\ last_change' = what

\* the lock runnable runs and calls store_deps
StoreDeps ==
    /\ \E gl \in NarrowGlobs, pd \in NarrowPydists, h \in BOOLEAN :
          /\ l_file' = store_deps(gl, pd, h)
          /\ l_written' = [stored |-> TRUE, globs |-> gl, pydists |-> pd, hash |-> h,
                           files |-> files, version |-> pydist_version]
    /\ Stepped("store")
    /\ UNCHANGED <<files, pydist_version, load_rest>>

\* the lock file gets a content that is no Serialized
Corrupt ==
    /\ l_file.state # "undecodable"
    /\ l_file' = [NoSerialized EXCEPT !.state = "undecodable"]
    /\ Stepped("corrupt")
    /\ UNCHANGED <<l_written, files, pydist_version, load_rest>>

\* the lock file is deleted
Remove ==
    /\ l_file.state # "missing"
    /\ l_file' = NoSerialized
    /\ Stepped("remove")
    /\ UNCHANGED <<l_written, files, pydist_version, load_rest>>

\* a tracked file gets another content
EditTracked ==
    /\ \E f \in RepoPaths :
       \E c \in FileContents \ {files[f]} :
          /\ files' = [files EXCEPT ![f] = c]
          /\ Stepped(f)
    /\ UNCHANGED <<l_file, l_written, pydist_version, load_rest>>

\* another version of the distribution is installed
Reinstall ==
    /\ \E v \in FileContents \ {pydist_version} : pydist_version' = v
    /\ Stepped("pydist")
    /\ UNCHANGED <<l_file, l_written, files, load_rest>>

NextLoad ==
    \/ StoreDeps
    \/ Corrupt
    \/ Remove
    \/ EditTracked
    \/ Reinstall

SpecLoad == InitLoad /\ [][NextLoad]_vars

\* ================================================== the deps of the deps
\* The runnables "build", "test" and "lint" with Cmd deps on each other and
\* with the artifacts cmd_artifacts gives them, which git tracks.  An
\* artifact gets another content, a Cmd dep is added or removed.

\* the runnable with its Cmd deps, as the graph has them
WithCmdDeps(name) ==
    LET l == sorted(ListOf({<<d>> : d \in graph_up[name]}))
    IN  [name |-> <<name>>, cache |-> <<"repo">>, cache_when |-> <<"success">>,
         deps |-> [i \in DOMAIN l |-> Dep("Cmd", l[i])]]

\* DepsCollection.runnables of the runnable: the runnables of its own Cmd deps
deps_runnables(name) ==
    LET r == WithCmdDeps(name)
    IN  {r.deps[i].val[1] : i \in {j \in DOMAIN r.deps : r.deps[j].type = "Cmd"}}

InitDeps ==
    /\ graph_up \in Graphs
    /\ graph_down = [n \in Nodes |-> {}]
    /\ view = [none |-> TRUE, names |-> {}]
    /\ workers = 1
    /\ cmd_code = [n \in Nodes |-> 0]
    /\ cache0 = << >>
    /\ pc = "idle"
    /\ in_degree = << >>
    /\ results = << >>
    /\ failed = {}
    /\ futures = << >>
    /\ exception = FALSE
    /\ finished = {}
    /\ exit_code = 0
    /\ submits = [n \in Nodes |-> 0]
    /\ ran = {}
    /\ tracked = RepoPaths
    /\ staged = [f \in RepoPaths |-> "1"]
    /\ files = [f \in RepoPaths |-> "1"]
    /\ d_prev = [n \in Nodes |-> NoHash]
    /\ finish_events = [n \in Nodes |-> 0]
    /\ run_pc = "idle"
    /\ run_orig = [none |-> TRUE, names |-> {}]
    /\ IdleTail
    /\ last_change = "init"
    /\ r_consts = {}
    /\ r_has_val = FALSE
    /\ pydist_version = "1"
    /\ val_value = "1"
    /\ prev_hash = NoHash
    /\ r_cache = "local"
    /\ cache_when = "success"
    /\ cache_fs = << >>
    /\ remote_fs = << >>
    /\ worktree = NoFiles
    /\ r_artifacts = {}
    /\ deps_version = "d1"
    /\ step = "idle"
    /\ first = NoOp
    /\ second = NoOp
    /\ cleaned = FALSE
    /\ IdleErr
    /\ IdleWatch
    /\ IdleFilter
    /\ IdleGit
    /\ IdleLoad

deps_rest == <<graph_down, view, workers, cmd_code, cache0, pc, in_degree, results,
               failed, futures, exception, finished, exit_code, submits, ran, tracked,
               staged, r_consts, r_has_val, pydist_version, val_value, prev_hash,
               r_cache, cache_when, cache_fs, remote_fs, worktree, r_artifacts,
               deps_version, step, first, second, cleaned, err_vars, watch_vars,
               filter_vars, git_vars, load_vars, finish_events, run_pc, run_orig,
               tail_vars>>

\* every change keeps the fingerprint each runnable had before it
Kept(what) ==
    /\ d_prev' = [n \in Nodes |-> runnable_hash(WithCmdDeps(n))]
    /\ last_change' = what

\* a run of a command writes another content into one of its artifacts
WriteArtifact ==
    /\ \E f \in RepoPaths :
       \E c \in FileContents \ {files[f]} :
          /\ files' = [files EXCEPT ![f] = c]
          /\ Kept(f)
    /\ UNCHANGED <<graph_up, deps_rest>>

\* the project gives a runnable one more Cmd dep, or one less
ChangeCmdDeps ==
    /\ \E g \in Graphs :
          /\ Cardinality({n \in Nodes : g[n] # graph_up[n]}) = 1
          /\ \A n \in Nodes :
                Cardinality((g[n] \ graph_up[n]) \cup (graph_up[n] \ g[n])) <= 1
          /\ graph_up' = g
    /\ Kept("deps")
    /\ UNCHANGED <<files, deps_rest>>

NextDeps ==
    \/ WriteArtifact
    \/ ChangeCmdDeps

SpecDeps == InitDeps /\ [][NextDeps]_vars

\* ------------------------------------------------ Graph.__init__
\* The Cmd dep of one command on another: none, or one whose isolated flag is
\* UNSET, True or False.
Pairs == {p \in Nodes \X Nodes : p[1] # p[2]}
EdgeKinds == {"no", "unset", "iso", "open"}

\* Python raises RecursionError when the nested generators of _runnable_edges
\* exceed the interpreter's recursion limit. A chain of followed deps over
\* fewer commands than the limit is that long only when it repeats a command.
RecursionLimit == Cardinality(Nodes)

\* dep.isolated if it is set, else the isolated setting of the context
isolated(runnable, dep) ==
    IF b_conf[<<runnable, dep>>] = "unset"
    THEN b_isolated
    ELSE b_conf[<<runnable, dep>>] = "iso"

\* all Cmd deps, isolated or not
followed_any(runnable) ==
    {dep \in Nodes \ {runnable} : b_conf[<<runnable, dep>>] # "no"}

\* the deps whose edge _runnable_edges yields and recurses into
followed(runnable) ==
    {dep \in Nodes \ {runnable} :
        /\ b_conf[<<runnable, dep>>] # "no"
        /\ (~isolated(runnable, dep) \/ dep \in b_cmds)}

RECURSIVE _runnable_edges(_, _)

\* _runnable_edges that stops at the depth bound instead of raising
_runnable_edges_cut(runnable, depth) ==
    IF depth >= RecursionLimit
    THEN [raised |-> FALSE, edges |-> {}]
    ELSE LET sub == [dep \in followed(runnable) |-> _runnable_edges(dep, depth + 1)]
         IN  [raised |-> FALSE,
              edges |-> UNION {{<<runnable, dep, "up">>}
                               \cup (IF dep \in StrictCmds
                                     THEN {<<dep, runnable, "down">>}
                                     ELSE {})
                               \cup sub[dep].edges : dep \in followed(runnable)}]

\* _runnable_edges at a generator depth; the edges it yields, or RecursionError
_runnable_edges(runnable, depth) ==
    IF depth >= RecursionLimit
    THEN [raised |-> TRUE, edges |-> {}]
    ELSE LET sub == [dep \in followed(runnable) |-> _runnable_edges(dep, depth + 1)]
         IN  [raised |-> \E dep \in followed(runnable) : sub[dep].raised,
              edges |-> UNION {{<<runnable, dep, "up">>}
                               \cup (IF dep \in StrictCmds
                                     THEN {<<dep, runnable, "down">>}
                                     ELSE {})
                               \cup sub[dep].edges : dep \in followed(runnable)}]

\* _runnables_edges: the edges of every selected runnable
_runnables_edges ==
    LET each == [r \in b_cmds |-> _runnable_edges(r, 0)]
    IN  [raised |-> \E r \in b_cmds : each[r].raised,
         edges |-> UNION {each[r].edges : r \in b_cmds}]

\* _get_graph: Graph(cmds), a RecursionError becomes GraphCycle
_get_graph ==
    LET e == _runnables_edges
    IN  IF e.raised
        THEN [state |-> "GraphCycle", nodes |-> {}, up |-> << >>, down |-> << >>]
        ELSE [state |-> "built",
              nodes |-> b_cmds \cup {x[1] : x \in e.edges} \cup {x[2] : x \in e.edges},
              up |-> [n \in Nodes |->
                        {x[2] : x \in {y \in e.edges : y[1] = n /\ y[3] = "up"}}],
              down |-> [n \in Nodes |->
                        {x[2] : x \in {y \in e.edges : y[1] = n /\ y[3] = "down"}}]]

InitGraph ==
    /\ b_conf \in [Pairs -> EdgeKinds]
    /\ b_isolated \in BOOLEAN
    /\ b_cmds \in (SUBSET Nodes) \ {{}}
    /\ b_out = NoGraph
    /\ r_cache = "local"
    /\ r_artifacts = {}
    /\ cache_when = "success"
    /\ deps_version = "d1"
    /\ cache_fs = << >>
    /\ remote_fs = << >>
    /\ worktree = NoFiles
    /\ step = "idle"
    /\ first = NoOp
    /\ second = NoOp
    /\ cleaned = FALSE
    /\ IdleDag
    /\ IdleHash
    /\ IdleErr
    /\ IdleWatch
    /\ IdleFilter
    /\ IdleGit
    /\ IdleLoad
    /\ d_prev = << >>
    /\ finish_events = [n \in Nodes |-> 0]
    /\ run_pc = "idle"
    /\ run_orig = [none |-> TRUE, names |-> {}]
    /\ IdleMemo
    /\ IdleLate

graph_rest == <<cache_fs, remote_fs, worktree, dag_vars, cache_vars, hash_vars,
                err_vars, watch_vars, filter_vars, git_vars, load_vars, d_prev,
                finish_events, run_pc, run_orig, memo_vars, late_vars>>

\* qik.runner.exec up to the graph: _get_graph
GetGraph ==
    /\ b_out.state = "none"
    /\ b_out' = _get_graph
    /\ UNCHANGED <<b_conf, b_isolated, b_cmds, graph_rest>>

\* qik.runner.exec after the graph: Runner(graph).exec() runs every node
ExecGraph ==
    /\ b_out.state = "built"
    /\ b_out' = [b_out EXCEPT !.state = "executed"]
    /\ UNCHANGED <<b_conf, b_isolated, b_cmds, graph_rest>>

NextGraph ==
    \/ GetGraph
    \/ ExecGraph

SpecGraph == InitGraph /\ [][NextGraph]_vars

\* ------------------------------------------------ Venv.packages_distributions
\* Two threads call packages_distributions of one Venv while the
\* site-packages dir changes.  The file of the on-disk cache may be there
\* from an earlier process.

\* the variables no part below touches, and their values when nothing runs
core_vars == <<cache_fs, remote_fs, worktree, dag_vars, cache_vars, hash_vars,
               err_vars, watch_vars, filter_vars, git_vars, load_vars, d_prev,
               finish_events, run_pc, run_orig, build_vars, memo_vars>>

IdleCore ==
    /\ r_cache = "local"
    /\ r_artifacts = {}
    /\ cache_when = "success"
    /\ deps_version = "d1"
    /\ cache_fs = << >>
    /\ remote_fs = << >>
    /\ worktree = NoFiles
    /\ step = "idle"
    /\ first = NoOp
    /\ second = NoOp
    /\ cleaned = FALSE
    /\ IdleDag
    /\ IdleHash
    /\ IdleErr
    /\ IdleWatch
    /\ IdleFilter
    /\ IdleGit
    /\ IdleLoad
    /\ d_prev = << >>
    /\ finish_events = [n \in Nodes |-> 0]
    /\ run_pc = "idle"
    /\ run_orig = [none |-> TRUE, names |-> {}]
    /\ IdleBuild
    /\ IdleMemo

\* what os.listdir can name in the dir
DirNames == {"a", "pkg", "__pycache__"}

\* venv_hash: hash.strs of the sorted names without __pycache__
venv_hash(contents) == strs(ListOf({<<name>> : name \in contents \ {"__pycache__"}}))

\* the mapping computed from the distributions of the dir as it is
pkg_to_dist(contents) == [src |-> contents]

\* a lookup that takes the file of the on-disk cache whatever its hash
cache_lookup_any_file(mem, disk, hash) ==
    IF mem.hash = hash THEN "memory"
    ELSE IF disk.present THEN "disk"
    ELSE "compute"

\* the branch packages_distributions takes under the lock: the in-memory
\* tuple if it has venv_hash, else the decoded file if it has venv_hash, else
\* the mapping is computed
cache_lookup(mem, disk, hash) ==
    IF mem.hash = hash THEN "memory"
    ELSE IF disk.present /\ disk.hash = hash THEN "disk"
    ELSE "compute"

InitVenv ==
    /\ v_dir \in SUBSET DirNames
    /\ v_mem = NoMem
    /\ v_disk \in {NoDiskCache} \cup
                  {[present |-> TRUE, hash |-> venv_hash(c), map |-> pkg_to_dist(c)] :
                      c \in SUBSET DirNames}
    /\ v_lock = 0
    /\ v_pc = [t \in Threads |-> "idle"]
    /\ v_hash = [t \in Threads |-> << >>]
    /\ v_ret = [t \in Threads |-> NoReturn]
    /\ v_midcall = FALSE
    /\ IdleMake
    /\ IdleCore

\* os.listdir and venv_hash, before the lock
VenvList(t) ==
    /\ v_pc[t] = "idle"
    /\ v_hash' = [v_hash EXCEPT ![t] = venv_hash(v_dir)]
    /\ v_pc' = [v_pc EXCEPT ![t] = "listed"]
    /\ UNCHANGED <<v_dir, v_mem, v_disk, v_lock, v_ret, v_midcall, make_vars, core_vars>>

\* with the lock: the in-memory mapping or the mapping of the file is
\* returned, or the caller goes on to compute
VenvEnter(t) ==
    /\ v_pc[t] = "listed"
    /\ v_lock = 0
    /\ LET path == cache_lookup(v_mem, v_disk, v_hash[t])
       IN  IF path = "compute"
           THEN /\ v_lock' = t
                /\ v_pc' = [v_pc EXCEPT ![t] = "computing"]
                /\ UNCHANGED v_ret
           ELSE /\ v_ret' = [v_ret EXCEPT ![t] =
                               [path |-> path, hash |-> v_hash[t],
                                map |-> IF path = "memory" THEN v_mem.map
                                        ELSE v_disk.map]]
                /\ v_pc' = [v_pc EXCEPT ![t] = "idle"]
                /\ UNCHANGED v_lock
    /\ UNCHANGED <<v_dir, v_mem, v_disk, v_hash, v_midcall, make_vars, core_vars>>

\* the mapping is computed from self.distributions(), written to the file and
\* to the in-memory tuple with venv_hash, and returned; the lock is released
VenvCompute(t) ==
    /\ v_pc[t] = "computing"
    /\ LET map == pkg_to_dist(v_dir)
       IN  /\ v_disk' = [present |-> TRUE, hash |-> v_hash[t], map |-> map]
           /\ v_mem' = [hash |-> v_hash[t], map |-> map]
           /\ v_ret' = [v_ret EXCEPT ![t] =
                          [path |-> "computed", hash |-> v_hash[t], map |-> map]]
    /\ v_lock' = 0
    /\ v_pc' = [v_pc EXCEPT ![t] = "idle"]
    /\ UNCHANGED <<v_dir, v_hash, v_midcall, make_vars, core_vars>>

\* a distribution is installed or removed, or python writes __pycache__
DirChange ==
    /\ \E c \in (SUBSET DirNames) \ {v_dir} : v_dir' = c
    /\ v_midcall' = (v_midcall \/ \E t \in Threads : v_pc[t] # "idle")
    /\ v_ret' = [t \in Threads |-> NoReturn]
    /\ UNCHANGED <<v_mem, v_disk, v_lock, v_pc, v_hash, make_vars, core_vars>>

NextVenv ==
    \/ \E t \in Threads : VenvList(t)
    \/ \E t \in Threads : VenvEnter(t)
    \/ \E t \in Threads : VenvCompute(t)
    \/ DirChange

SpecVenv == InitVenv /\ [][NextVenv]_vars

\* ------------------------------------------------ _make_runnable
\* The cache backend and cache_when a runnable gets from the configuration of
\* its command and the defaults of the project.

\* a cache or cache_when of a configuration: UNSET or a value
ConfCaches == {UNSET} \cup Backends
ConfCacheWhens == {UNSET} \cup CacheWhens

RECURSIVE coalesce(_, _)
\* unset.coalesce: the first argument that is not UNSET, else the default
coalesce(args, default) ==
    IF args = << >> THEN default
    ELSE IF Head(args) # UNSET THEN Head(args)
    ELSE coalesce(Tail(args), default)

\* _make_runnable: cache and cache_when of the runnable
_make_runnable(conf, defaults) ==
    LET initial_cache == IF ~conf.deps THEN "none" ELSE conf.cache
    IN  [made |-> TRUE,
         cache |-> coalesce(<<initial_cache, defaults.cache>>, "local"),
         cache_when |-> coalesce(<<conf.cache_when, defaults.cache_when>>, "success")]

InitMake ==
    /\ k_conf \in [deps : BOOLEAN, cache : ConfCaches, cache_when : ConfCacheWhens]
    /\ k_defaults \in [cache : ConfCaches, cache_when : ConfCacheWhens]
    /\ k_out = NotMade
    /\ IdleVenv
    /\ IdleCore

MakeRunnable ==
    /\ ~k_out.made
    /\ k_out' = _make_runnable(k_conf, k_defaults)
    /\ UNCHANGED <<k_conf, k_defaults, venv_vars, core_vars>>

SpecMake == InitMake /\ [][MakeRunnable]_vars

\* ------------------------------------------------ properties of the run
Returned == pc \in {"return", "done"}

\* R has a direct Cmd dep on S, and whether that dep is strict
CmdDep(R, S) == S \in graph_up[R]
StrictDep(R, S) == CmdDep(R, S) /\ R \in graph_down[S]

\* S has finished in this run with a nonzero code
FinishedFailed(S) ==
    S \in DOMAIN results /\ results[S].isresult /\ results[S].code # 0

Skipped(R) == R \in DOMAIN results /\ results[R] = NoResult

\* the cache held an entry for the fingerprint of R when the run started, and
\* its code satisfies cache_when
WarmAtStart(R) ==
    LET dir == DirAt(cache0, base_path("local", R, HashOf(R)))
    IN  /\ dir.manifest.present
        /\ dir.manifest.hash = HashOf(R)
        /\ should_cache(cache_when, dir.manifest.code)

C2_StrictFailureSkips ==
    /\ \A R \in nodes : \A S \in nodes :
          (StrictDep(R, S) /\ FinishedFailed(S)) => (submits[R] = 0 /\ Skipped(R))
    /\ ( /\ pc = "done"
         /\ nodes = {"build", "test"}
         /\ StrictDep("test", "build")
         /\ results["build"].isresult
         /\ results["build"].code = 2 )
       => (Skipped("test") /\ exit_code = 2)

C2_Witness ==
    /\ pc = "done"
    /\ nodes = {"build", "test"}
    /\ StrictDep("test", "build")
    /\ results["build"].isresult /\ results["build"].code = 2 /\ "build" \in ran
    /\ Skipped("test")
    /\ exit_code = 2

\* C3 as stated: if R depends on S only through a Cmd dep that is not strict,
\* S failed in this run and R had a valid cache entry, then R is not skipped:
\* when the run returns R has a Result.
C3_Original ==
    \A R \in nodes : \A S \in nodes :
        ( /\ Returned
          /\ CmdDep(R, S) /\ ~StrictDep(R, S)
          /\ \A T \in upstream[R] : T = S
          /\ FinishedFailed(S)
          /\ WarmAtStart(R) )
        => (R \in DOMAIN results /\ results[R].isresult)

\* C3 amended: the failure of S skips every R of the view that has S in its
\* upstream set, through strict and non-strict Cmd deps alike and also when R
\* has a valid cache entry: R is not submitted and its result is None.
C3_AnyFailureSkips ==
    \A R \in nodes : \A S \in nodes :
        (S \in upstream[R] /\ FinishedFailed(S)) => (submits[R] = 0 /\ Skipped(R))

C3_Witness ==
    /\ pc = "done"
    /\ {"test", "lint"} \subseteq nodes
    /\ CmdDep("lint", "test") /\ ~StrictDep("lint", "test")
    /\ upstream["lint"] = {"test"}
    /\ FinishedFailed("test")
    /\ WarmAtStart("lint")
    /\ Skipped("lint") /\ submits["lint"] = 0

\* C4: Runner.exec returns 0 if and only if no runnable of the run finished
\* with a nonzero code.
C4_ExitCodeZeroIffNoFailure ==
    pc = "done" =>
        (exit_code = 0 <=> \A n \in DOMAIN results : ~FinishedFailed(n))

\* the result of a node that is executed: from the cache entry the run started
\* with, else from the command
OwnResult(n) ==
    IF WarmAtStart(n)
    THEN LET dir == DirAt(cache0, base_path("local", n, HashOf(n)))
         IN  Result(IF dir.manifest.log THEN Str(read_text(dir.out.text)) ELSE NoneStr,
                    dir.manifest.code, dir.manifest.hash)
    ELSE Result(LogOf(n), cmd_code[n], HashOf(n))

\* the results and the cache of a run as the graph, the cache at its start and
\* the outcomes of the commands determine them, whatever the schedule
ExpectedResults ==
    [n \in nodes |->
        IF \A u \in upstream[n] : OwnResult(u).code = 0 THEN OwnResult(n) ELSE NoResult]

ExpectedWritten ==
    {n \in nodes : /\ ExpectedResults[n].isresult
                   /\ ~WarmAtStart(n)
                   /\ should_cache(cache_when, ExpectedResults[n].code)}

ExpectedCache ==
    [bp \in DOMAIN cache0 \cup {base_path("local", n, HashOf(n)) : n \in ExpectedWritten}
        |-> IF bp[2] \in ExpectedWritten
            THEN [EmptyDir EXCEPT
                    !.manifest = Manifest(bp[2], HashOf(bp[2]), cmd_code[bp[2]], TRUE, {}),
                    !.out = LogOf(bp[2])]
            ELSE cache0[bp]]

\* C10: for a fixed graph and fixed outcomes of the commands, the results map
\* that is returned and the cache entries that were written are the same for
\* every number of workers and every order in which the runnables complete.
C10_ScheduleIndependent ==
    pc = "done" => (results = ExpectedResults /\ cache_fs = ExpectedCache)

C10_Witness ==
    /\ pc = "done"
    /\ workers > 1
    /\ Cardinality(ran) > 1
    /\ \E n \in nodes : upstream[n] = {} /\ \E m \in nodes \ {n} : upstream[m] = {}
    /\ \E n \in nodes : results[n] = NoResult
    /\ cache_fs # cache0

\* ------------------------------------------- properties of the cache
\* a log without a carriage return
NoCR(l) == \A i \in DOMAIN l.text : l.text[i] # "CR"

\* the log of a cache entry that was stored for a result with log l: the log
\* file is written only for a non-empty log and is read with universal newlines
LogComesBack(l, back) ==
    /\ Truthy(l) /\ NoCR(l) => back = l
    /\ ~Truthy(l) => back = NoneStr
    /\ ~NoCR(l) => back = Str(read_text(l.text))

\* the two operations are executions of the runnable without force; the first
\* ran the command and ended with a code that cache_when lets through; the
\* deps are the same when the second starts; the cache was not removed
C5_Case ==
    /\ step = "done"
    /\ first.op = "exec" /\ ~first.force /\ first.ran
    /\ should_cache(cache_when, first.result.code)
    /\ second.op = "exec" /\ ~second.force
    /\ second.hash = first.result.hash
    /\ ~cleaned

\* C5 as stated: the second execution does not run the command and returns
\* the code and the log of the first.
C5_Original ==
    C5_Case =>
        /\ ~second.ran
        /\ second.result.code = first.result.code
        /\ second.result.log = first.result.log

\* C5: for a runnable with a cache backend other than none, the second
\* execution does not run the command and returns the code of the first; it
\* returns the log of the first if that is non-empty and has no carriage
\* return, None if it is empty, and the log with \r\n and \r read as \n
\* otherwise.
C5_SecondRunIsCacheHit ==
    (C5_Case /\ r_cache # "none") =>
        /\ ~second.ran
        /\ second.result.code = first.result.code
        /\ LogComesBack(first.result.log, second.result.log)

C5_Witness ==
    /\ C5_Case
    /\ r_cache \in {"repo", "local", "s3"}
    /\ first.result.code = 1
    /\ Truthy(first.result.log)
    /\ second.before # first.wt
    /\ ~second.ran
    /\ second.result.log = first.result.log

\* the first operation is Cache.set, the second Cache.get with the same
\* fingerprint, on a caching backend whose directories were not removed
C6_Case ==
    /\ step = "done"
    /\ first.op = "set"
    /\ second.op = "get"
    /\ second.hash = first.result.hash
    /\ r_cache # "none"
    /\ ~cleaned

\* the artifact files of the runnable at set time
SetFiles == {p \in r_artifacts : first.wt[p] # NoFile}

\* C6 as stated: get returns the code and log that were set and every
\* artifact file has its content of set time again, for every backend.
C6_Original ==
    C6_Case =>
        /\ second.entry.found
        /\ second.entry.manifest.code = first.result.code
        /\ second.entry.log = first.result.log
        /\ \A p \in SetFiles : second.wt[p] = first.wt[p]

\* C6: get returns an entry with the code that was set and with the log that
\* was set if that is non-empty and has no carriage return (None for an empty
\* log, \r\n and \r read as \n otherwise).  With the local and the S3 backend
\* every artifact file that existed at set time has its content of set time
\* again; with the repo backend get leaves the artifact files as they are.
C6_SetGetRoundTrip ==
    C6_Case =>
        /\ second.entry.found
        /\ second.entry.manifest.code = first.result.code
        /\ LogComesBack(first.result.log, second.entry.log)
        /\ r_cache \in {"local", "s3"} =>
              \A p \in ArtPaths :
                 second.wt[p] = IF p \in SetFiles THEN first.wt[p] ELSE second.before[p]
        /\ r_cache = "repo" => second.wt = second.before

C6_Witness ==
    /\ C6_Case
    /\ r_cache = "s3"
    /\ Truthy(first.result.log)
    /\ \E p \in SetFiles : /\ second.before[p] # first.wt[p]
                           /\ second.wt[p] = first.wt[p]
    /\ second.entry.log = first.result.log

\* the cache directory of the runnable for fingerprint h in the directories fs
EntryDir(fs, h) == DirAt(fs, base_path(r_cache, TheName, h))

\* the log file the manifest of a cache directory names, as it is on disk
ManifestLog(dir) == IF dir.manifest.log THEN dir.out ELSE NoneStr

\* the second operation is an execution under force; when it starts the cache
\* holds an entry for the current fingerprint whose code cache_when lets
\* through; the forced command leaves the deps as they are
C7_Case ==
    /\ step = "done"
    /\ second.op = "exec" /\ second.force
    /\ r_cache # "none"
    /\ LET e == get_entry(r_cache, EntryDir(second.fs, second.hash), second.before,
                          second.hash).entry
       IN  e.found /\ should_cache(cache_when, e.manifest.code)
    /\ second.result.hash = second.hash

\* C7 as stated: the forced execution runs the command and the manifest that
\* is stored afterwards has the fingerprint of before and the code and the log
\* of the forced execution.
C7_Original ==
    C7_Case =>
        /\ second.ran
        /\ LET dir == EntryDir(cache_fs, second.hash)
           IN  /\ dir.manifest.present
               /\ dir.manifest.hash = second.hash
               /\ dir.manifest.code = second.result.code
               /\ ManifestLog(dir) = second.result.log

\* C7: an execution under force always runs the command.  If its code
\* satisfies cache_when, the manifest stored afterwards has the fingerprint of
\* before and the code of the forced execution, and names a log file with the
\* log of the forced execution if that log is non-empty (no log file if it is
\* empty); if its code does not satisfy cache_when, the cache entry stays as
\* it was before the forced execution.
C7_ForceRunsAndOverwrites ==
    /\ first.op = "exec" /\ first.force => first.ran
    /\ second.op = "exec" /\ second.force => second.ran
    /\ C7_Case =>
          LET dir == EntryDir(cache_fs, second.hash)
              log == second.result.log
          IN  IF should_cache(cache_when, second.result.code)
              THEN /\ dir.manifest.present
                   /\ dir.manifest.hash = second.hash
                   /\ dir.manifest.code = second.result.code
                   /\ ManifestLog(dir) = IF Truthy(log) THEN log ELSE NoneStr
              ELSE dir = EntryDir(second.fs, second.hash)

C7_Witness ==
    /\ C7_Case
    /\ first.op = "exec" /\ first.ran /\ first.stored
    /\ second.ran
    /\ should_cache(cache_when, second.result.code)
    /\ second.result.code # first.result.code
    /\ Truthy(second.result.log)
    /\ second.result.log # first.result.log
    /\ EntryDir(cache_fs, second.hash).manifest.code = second.result.code

\* ------------------------------------- properties of the fingerprint
\* C8: a change of only the cache or only the cache_when of a runnable leaves
\* Runnable.hash() as it was.
C8_CacheFieldsNotHashed ==
    last_change \in {"cache", "cache_when"} =>
        runnable_hash(HashedRunnable) = prev_hash

C8_Witness ==
    /\ last_change = "cache_when"
    /\ ~prev_hash.raised
    /\ r_cache = "repo"
    /\ r_consts # {}
    /\ runnable_hash(HashedRunnable).digest # << >>

MetError == x_last.op = "exec" /\ x_last.error # "none"

\* C11: a RunnableError raised at any point of Runnable.exec (the cache
\* lookup, the command, the hash of the result) becomes a Result with code 1
\* and the formatted error as log, and never leaves Runnable.exec, under any
\* force setting and any cache backend.
C11_RunnableErrorBecomesResult ==
    MetError =>
        /\ ~x_last.raised
        /\ x_last.result.isresult
        /\ x_last.result.code = 1
        /\ x_last.result.log = fmt_msg(x_last.error)

\* ------------------------------------------------ properties of the watcher
\* nothing is left to happen in the watcher until the next event
Quiescent == w_state = "watching" /\ w_lock = "free" /\ ~w_armed /\ w_waiting = 0

\* events i and i+1 are accepted, on_any_event took event i+1 while the timer
\* of event i had not fired, and no run started between the two
Debounced(i) ==
    /\ i \in 1..(Len(w_events) - 1)
    /\ Accepted(w_events[i].path)
    /\ Accepted(w_events[i + 1].path)
    /\ w_events[i + 1].near
    /\ w_events[i].execs = w_events[i + 1].execs
    /\ ~(w_lock = "event" /\ i + 1 = Len(w_events))

\* the accepted changes of the events after event number n
ChangesAfter(n) ==
    {ChangeOf(w_events[j].path) :
        j \in {k \in (n + 1)..Len(w_events) : Accepted(w_events[k].path)}}

\* C12: two accepted events less than the debounce interval apart, with no
\* run in progress, trigger exactly one Runner.exec, and its change set holds
\* both paths: the first run after them holds both, every later run holds
\* only changes of later events, and the run has started once the watcher has
\* come to rest.
C12_DebouncedEventsRunOnce ==
    \A i \in 1..MaxEvents :
        Debounced(i) =>
            LET n == w_events[i + 1].execs
            IN  /\ Len(w_execs) > n =>
                      {ChangeOf(w_events[i].path), ChangeOf(w_events[i + 1].path)}
                          \subseteq w_execs[n + 1].changes
                /\ \A k \in (n + 2)..Len(w_execs) :
                      w_execs[k].changes \subseteq ChangesAfter(w_execs[k - 1].upto)
                /\ Quiescent => Len(w_execs) > n

C12_Witness ==
    /\ Len(w_events) = 2
    /\ Debounced(1)
    /\ w_events[1].path = "src/a.py"
    /\ w_events[2].path = "src/b.py"
    /\ Len(w_execs) = 1
    /\ w_execs[1].changes = {"src/a.py", "src/b.py"}
    /\ Quiescent

\* C13: once on_any_event has seen an event for qik.toml the watcher starts
\* no further Runner.exec, whatever the change set and the timer were.
C13_NoRunAfterConfigEvent ==
    \A k \in 1..Len(w_execs) : ~w_execs[k].exiting

\* ------------------------------------------------- properties of the filter
\* Graph.filter_changes returned a view
Filtered == f_out.op = "filter" /\ f_out.raised = "none"

\* the patterns the claim names for a runnable: its since or watch patterns
PatternsOf(runnable) ==
    IF f_out.strategy = "since" THEN dep_since(f_deps[runnable], f_lock).globs
    ELSE dep_watch(f_deps[runnable])

\* the runnables of the graph whose patterns match a changed path or whose
\* pydists meet the changed pydists
MatchedRunnables ==
    {runnable \in nodes :
        \/ \E change \in f_out.changes :
              /\ change.type = "Glob"
              /\ \E pattern \in PatternsOf(runnable) : fnmatch(change.val, pattern)
        \/ \E change \in f_out.changes :
              /\ change.type = "Pydist"
              /\ change.val \in dep_pydists(f_deps[runnable])}

UpstreamOf(S) == UNION {_upstream[runnable] : runnable \in S}
DownstreamOf(S) == UNION {_downstream[runnable] : runnable \in S}

\* C14 as stated: the view is the matched runnables, their upstream closure
\* and the downstream closure of the matched runnables, and nothing else.
C14_Original ==
    Filtered =>
        f_out.view = MatchedRunnables \cup UpstreamOf(MatchedRunnables)
                         \cup DownstreamOf(MatchedRunnables)

\* C14: when filter_changes returns, the view is the matched runnables, their
\* upstream closure, and the downstream (strict dependent) closure of the
\* matched runnables and of their upstream runnables; no other node is in it.
C14_ViewIsMatchedWithClosures ==
    Filtered =>
        f_out.view = MatchedRunnables \cup UpstreamOf(MatchedRunnables)
                         \cup DownstreamOf(MatchedRunnables
                                           \cup UpstreamOf(MatchedRunnables))

\* lint is matched, build is upstream of it, test depends strictly on build
C14_Witness ==
    /\ Filtered
    /\ view.none
    /\ f_out.changes = {Dep("Glob", <<"src/", "a.py">>)}
    /\ MatchedRunnables = {"lint"}
    /\ graph_up["lint"] = {"build"}
    /\ graph_up["test"] = {"build"}
    /\ f_out.view = {"lint", "build", "test"}

\* C20: filtering by since with a Pydist dep and no lock file reports
\* LockFileNotFound for that runnable alone; the other runnables are still
\* filtered and run, the run is not aborted.
C20_LockFileNotFoundIsPerRunnable ==
    f_out.op = "filter" => f_out.raised # "LockFileNotFound"

\* ------------------------------------------- properties of the S3 backend
\* set and then get of the S3 backend with the same fingerprint
C15_Case ==
    /\ step = "done"
    /\ r_cache = "s3"
    /\ first.op = "set"
    /\ second.op = "get"
    /\ second.hash = first.result.hash

\* C15: after set uploaded the entry, a get with the same fingerprint on an
\* empty local cache dir downloads it through on_miss and returns the code,
\* log and artifacts a local hit returns; with the local entry in place
\* on_miss is not called.
C15_RemoteHitIsLocalHit ==
    C15_Case =>
        /\ second.missed <=> cleaned
        /\ second.entry.found
        /\ second.entry.manifest.code = first.result.code
        /\ LogComesBack(first.result.log, second.entry.log)
        /\ second.entry.manifest.artifacts = SetFiles
        /\ \A p \in ArtPaths :
              second.wt[p] = IF p \in SetFiles THEN first.wt[p] ELSE second.before[p]

C15_Witness ==
    /\ C15_Case
    /\ cleaned
    /\ second.fs = << >>
    /\ second.missed
    /\ second.entry.found
    /\ SetFiles = {"dist/a"}
    /\ second.before["dist/a"] # first.wt["dist/a"]
    /\ second.wt["dist/a"] = first.wt["dist/a"]

\* ------------------------------------------------ properties of hash.globs
\* an operation on the repository was done
GitDone == g_last.op # "none"

\* the pattern list holds the path
Matches(args, path) == \E i \in DOMAIN args : args[i] = path

\* the digest of the content a file has in the work tree, forty zeros if the
\* file is missing
WorkDigest(path) ==
    IF files[path] = NoFile THEN <<"0">> ELSE xxh128_hexdigest(<<files[path]>>)

\* name and work tree digest of each file of the index that the patterns match
TrackedMatches(args) ==
    join([i \in DOMAIN Paths |->
            IF Matches(args, Paths[i]) /\ Paths[i] \in tracked
            THEN <<Paths[i]>> \o WorkDigest(Paths[i]) ELSE << >>])

\* the digests of the files below ._qik/artifacts/ that the patterns name
PrivMatches(args) ==
    join([i \in DOMAIN PrivPaths |->
            IF Matches(args, PrivPaths[i])
            THEN xxh128_hexdigest(<<files[PrivPaths[i]]>>) \o <<"LF">> ELSE << >>])

\* the last operation wrote or deleted a file that is not in the index
UntrackedWrite ==
    /\ g_last.op \in {"write", "unlink"}
    /\ ~g_last.tracked
    /\ Matches(g_args, g_last.path)

\* the last operation staged the content of a file of the index, or committed
StagedOrCommitted ==
    \/ g_last.op = "add" /\ g_last.tracked /\ Matches(g_args, g_last.path)
    \/ g_last.op = "commit"

\* what the claim says of the patterns args
GlobsContract(args) ==
    LET now == globs_result(args)
    IN  /\ hash_globs(<< >>) = << >>
        /\ ~now.raised
        /\ args # << >> => now.digest = xxh128_hexdigest(TrackedMatches(args))
        /\ (GitDone /\ args = g_args /\ UntrackedWrite) => now = g_prev
        /\ (GitDone /\ args = g_args /\ StagedOrCommitted) => now = g_prev
        /\ (args # << >> /\ \A f \in tracked : ~Matches(args, f)) =>
               now.digest = xxh128_hexdigest(<< >>)

\* C16 as stated: hash.globs is the digest of names and work tree content of
\* the files of the index that match the patterns: "" without patterns,
\* unchanged by a write of an untracked file that matches, unchanged by
\* staging or committing the content of a tracked file, with forty zeros
\* for a tracked file that is missing, and the digest of nothing when no file
\* of the index matches
C16_Original == GlobsContract(g_args)

\* C16: the same for patterns that are not below ._qik/artifacts/; a pattern
\* below ._qik/artifacts/ names a file that is hashed from the work tree
\* whether it is in the index or not, and hash.globs raises if it is missing
C16_GlobsHashTrackedWorkTree ==
    LET now == globs_result(g_args)
        priv == {i \in DOMAIN g_args : is_priv(g_args[i])}
    IN  /\ priv = {} => GlobsContract(g_args)
        /\ priv # {} =>
             /\ now.raised <=> \E i \in priv : files[g_args[i]] = NoFile
             /\ ~now.raised =>
                  now.digest = xxh128_hexdigest(PrivMatches(g_args)
                                                \o TrackedMatches(g_args))
             /\ (GitDone /\ StagedOrCommitted) => now = g_prev

\* the content of src/x was staged while dist/a, which matches and is in the
\* index, is missing from the work tree, and the hash stayed as it was
C16_Witness ==
    /\ g_args = <<"src/x", "dist/a">>
    /\ g_last = [op |-> "add", path |-> "src/x", tracked |-> TRUE]
    /\ "dist/a" \in tracked
    /\ files["dist/a"] = NoFile
    /\ files["src/x"] = "2"
    /\ ~g_prev.raised
    /\ g_prev.digest = hash_globs(g_args)

\* ------------------------------------------ properties of the hash functions
\* the permutations of 1..n and the lists that enumerate a set once
Perms(n) == {f \in [1..n -> 1..n] : \A i, j \in 1..n : f[i] = f[j] => i = j}
Orders(S) ==
    {l \in [1..Cardinality(S) -> S] : \A i, j \in DOMAIN l : l[i] = l[j] => i = j}

\* the str of a list of paths or names
AsStrs(l) == [i \in DOMAIN l |-> <<l[i]>>]

\* C17: hash.strs and hash.pydists give the same for every permutation of
\* their arguments, hash.globs gives the same for every permutation of its
\* patterns with any of them passed twice, and the hashes of the consts, the
\* globs and the pydists of a DepsCollection are the same for every order in
\* which the deps are declared and in which the sets are iterated
C17_HashesIgnoreOrder ==
    \A f \in Perms(Len(g_args)) :
       LET p == [i \in DOMAIN g_args |-> g_args[f[i]]]
           r == Declared(g_args)
           rp == Declared(p)
       IN  /\ strs(AsStrs(p)) = strs(AsStrs(g_args))
           /\ hash_pydists(AsStrs(p)) = hash_pydists(AsStrs(g_args))
           /\ globs_result(p) = globs_result(g_args)
           /\ \A i \in DOMAIN p : globs_result(p \o <<p[i]>>) = globs_result(g_args)
           /\ \A c \in Orders(consts(rp)) : strs(c) = strs(ListOf(consts(r)))
           /\ \A g \in Orders(globs(rp)) :
                 globs_result(g) = globs_result(ListOf(globs(r)))
           /\ \A d \in Orders(pydists(rp)) :
                 hash_pydists(d) = hash_pydists(ListOf(pydists(r)))

\* three deps are declared in an order that is not the sorted one: a tracked
\* file that is modified, a distribution and a const
C17_Witness ==
    /\ g_args = <<"src/x", "pkg", "a">>
    /\ files["src/x"] # staged["src/x"]
    /\ join(AsStrs(g_args)) # join(sorted(AsStrs(g_args)))

\* ------------------------------------------------ properties of the Load dep
\* the Load dep of the consumer, and what its file holds if it decodes
TheLoad == Consumer.deps[1]
Written == l_file.state = "written"
Listed(l, x) == \E i \in DOMAIN l : l[i] = x

\* the globs the Load dep has to contribute
Covered == IF Written THEN l_written.globs ELSE DefaultGlobs

\* C18: while the file of the Load dep is missing or does not decode the dep
\* gives its default globs and no pydists; once store_deps wrote the file it
\* gives the globs and pydists that were stored; and an edit of a tracked
\* file changes the fingerprint of the consumer exactly if the file is among
\* the default globs before, among the stored globs after
C18_LoadDefaultUntilFileDecodes ==
    /\ ~Written => /\ load_globs(TheLoad) = DefaultGlobs
                   /\ load_pydists(TheLoad) = << >>
    /\ Written => /\ load_globs(TheLoad) = l_written.globs
                  /\ load_pydists(TheLoad) = l_written.pydists
    /\ last_change \in RepoPaths =>
          (runnable_hash(Consumer) # prev_hash <=> Listed(Covered, last_change))
    /\ last_change = "pydist" =>
          (runnable_hash(Consumer) # prev_hash <=>
               Written /\ Listed(l_written.pydists, "pkg"))

\* the lock file holds the narrow list (src/x), and an edit of dist/a, which
\* the default covers, left the fingerprint of the consumer as it was
C18_Witness ==
    /\ Written
    /\ l_written.globs = <<"src/x">>
    /\ DefaultGlobs # l_written.globs
    /\ last_change = "dist/a"
    /\ runnable_hash(Consumer) = prev_hash

\* the file was written with a hash and nothing that it lists has changed
StoredAndCurrent ==
    /\ Written
    /\ l_written.hash
    /\ \A f \in RepoPaths : Listed(l_written.globs, f) => files[f] = l_written.files[f]
    /\ Listed(l_written.pydists, "pkg") => pydist_version = l_written.version

\* the hash field of the file
StoredHash == decode_serialized(l_file.json).hash.text

\* C19 as stated: while the file store_deps wrote with a hash exists and what
\* it lists is unchanged, Runnable.hash of the consumer is the hash field
C19_Original == StoredAndCurrent => runnable_hash(Consumer).digest = StoredHash

\* C19: while the file store_deps wrote with a hash exists and what it lists
\* is unchanged, the hash of the DepsCollection of the consumer is the hash
\* field, and Runnable.hash of the consumer is hash.strs of its spec_hash and
\* of the hash field
C19_DepsHashIsStoredHash ==
    StoredAndCurrent =>
        /\ deps_hash(Consumer) = StoredHash
        /\ runnable_hash(Consumer).digest = strs(<<spec_hash(Consumer), StoredHash>>)
        /\ runnable_hash(Consumer).digest # StoredHash

\* the file lists src/x and pkg and has a hash; dist/a was edited since
C19_Witness ==
    /\ StoredAndCurrent
    /\ l_written.globs = <<"src/x">>
    /\ l_written.pydists = <<"pkg">>
    /\ last_change = "dist/a"
    /\ files # l_written.files

\* ------------------------------------------------ properties of the Cmd deps
\* the artifact patterns of S are among the globs of R
ArtifactsFolded(R, S) == cmd_artifacts(S) \subseteq globs(WithCmdDeps(R))

\* an artifact of S got another content and Runnable.hash of R changed
ArtifactChanged(S) == last_change \in cmd_artifacts(S)
HashMoved(R) == runnable_hash(WithCmdDeps(R)) # d_prev[R]

\* C21 as stated: the artifact patterns of every runnable that R reaches over
\* Cmd deps, in one step or in more, are among the globs of R, and a change
\* of such an artifact changes Runnable.hash of R
C21_Original ==
    \A R \in Nodes : \A S \in _dfs(graph_up, R) :
       /\ ArtifactsFolded(R, S)
       /\ ArtifactChanged(S) => HashMoved(R)

\* C21: the artifact patterns of every runnable of R's own Cmd deps are among
\* the globs of R, and a change of such an artifact changes Runnable.hash of
\* R; the globs of R hold no artifact pattern of any other runnable
C21_DirectArtifactsInGlobs ==
    \A R \in Nodes :
       /\ \A S \in deps_runnables(R) :
             /\ ArtifactsFolded(R, S)
             /\ ArtifactChanged(S) => HashMoved(R)
       /\ globs(WithCmdDeps(R)) = UNION {cmd_artifacts(S) : S \in graph_up[R]}
       /\ \A f \in RepoPaths :
             (last_change = f /\ f \notin globs(WithCmdDeps(R))) => ~HashMoved(R)

\* lint has a Cmd dep on test only and test has one on build: the artifact of
\* build got another content, Runnable.hash of test changed and Runnable.hash
\* of lint did not
C21_Witness ==
    /\ graph_up = [n \in Nodes |-> IF n = "lint" THEN {"test"}
                                   ELSE IF n = "test" THEN {"build"} ELSE {}]
    /\ last_change = "dist/a"
    /\ HashMoved("test")
    /\ ~HashMoved("lint")

\* ------------------------------------------- properties of the scheduling
\* the node was handed to the pool in this run
Submitted(name) == submits[name] > 0

\* the node finished with code 0
Succeeded(name) ==
    /\ name \in DOMAIN results
    /\ results[name].isresult
    /\ results[name].code = 0
    /\ name \notin DOMAIN futures

\* the nodes of the view that the node reaches over the edges of the graph
UpstreamInView(name) == {dep \in _dfs(graph_up, name) : InView(dep)}

\* C22: a node that was submitted to the pool has every node of its
\* transitive upstream set that is in the view finished with code 0; no node
\* is pending or running while one of them is running or was not started
C22_SubmittedAfterUpstream ==
    \A name \in Nodes :
       Submitted(name) => \A dep \in UpstreamInView(name) : Succeeded(dep)

\* lint runs, its upstream build is reached over test only, which is not in
\* the view, and build finished with code 0
C22_Witness ==
    /\ graph_up = [n \in Nodes |-> IF n = "lint" THEN {"test"}
                                   ELSE IF n = "test" THEN {"build"} ELSE {}]
    /\ view = [none |-> FALSE, names |-> {"build", "lint"}]
    /\ "lint" \in DOMAIN futures
    /\ futures["lint"].state = "running"
    /\ Succeeded("build")

\* DAGPool.exec has returned or raised
Ended == pc \in {"return", "done", "raised"}

\* no node of the transitive upstream set of the node (in the view) failed
NoFailedUpstream(name) == \A dep \in UpstreamInView(name) : ~FinishedFailed(dep)

\* C23: a node of the view whose transitive upstream set holds no failed node
\* is never reported None, and when DAGPool.exec has ended it was submitted
\* once and results holds the Result of its execution
C23_FailureLeavesOthersAlone ==
    \A name \in nodes :
       NoFailedUpstream(name) =>
          /\ name \in DOMAIN results => results[name].isresult
          /\ Ended => /\ submits[name] = 1
                      /\ name \in DOMAIN results
                      /\ name \notin DOMAIN futures

\* build failed and lint, which depends on build, was skipped; test, which
\* has no dep on build, ran its command to the end with code 0
C23_Witness ==
    /\ Ended
    /\ view.none
    /\ graph_up = [n \in Nodes |-> IF n = "lint" THEN {"build"} ELSE {}]
    /\ workers = 1
    /\ FinishedFailed("build")
    /\ Succeeded("test")
    /\ "test" \in ran
    /\ Skipped("lint")

\* ------------------------------------------------ properties of the logger
\* Stats.cmd_total and Stats.cmd_finished; every runnable of the graph is the
\* one runnable of the command of its name
cmd_total(cmd) == Cardinality({name \in nodes : name = cmd})
cmd_finished(cmd) == finish_events[cmd]

\* C24: the logger never gets a second 'finish' event for a node, when
\* DAGPool.exec has ended it got one for every node of the view, and
\* cmd_finished of a command is never above cmd_total
C24_FinishedExactlyOnce ==
    /\ \A name \in Nodes : finish_events[name] <= 1
    /\ Ended => \A name \in nodes : finish_events[name] = 1
    /\ \A cmd \in Nodes : cmd_finished(cmd) <= cmd_total(cmd)

\* build and test failed and lint, which depends on both, was skipped by
\* each of them: the logger got two 'finish' events for lint
C24_TwiceSkipped ==
    /\ FinishedFailed("build")
    /\ FinishedFailed("test")
    /\ Skipped("lint")
    /\ finish_events["lint"] = 2
    /\ cmd_total("lint") = 1

\* ------------------------------------- properties of unexpected exceptions
\* what _finish records for a future that holds an exception
ExcResult == Result(Str(<<"exc">>), 1, EmptyHash)

\* _finish handles the future of the node, which holds an exception
FinishesRaised(name) ==
    /\ pc = "finish"
    /\ name \in finished
    /\ futures[name].raised
    /\ name \notin DOMAIN futures'

\* C25, the step: when _finish handles a future that holds an exception the
\* node is recorded with a Result of code 1 and is failed, every downstream
\* node is skipped, the exception is kept and the loop goes on
C25_Step ==
    \A name \in Nodes :
       FinishesRaised(name) =>
          /\ results'[name] = ExcResult
          /\ name \in failed'
          /\ \A dep \in downstream(name) :
                dep \in DOMAIN results' /\ results'[dep] = NoResult
          /\ exception'
          /\ pc' = "finish"

\* C25, the states: DAGPool.exec raises only after the loop, with no node
\* left in in_degree or in futures and every node of the view reported, and
\* it does not return when a worker raised
C25_State ==
    /\ pc = "raised" => /\ exception
                        /\ DOMAIN in_degree = {}
                        /\ DOMAIN futures = {}
                        /\ DOMAIN results = nodes
    /\ (exception /\ Ended) => pc = "raised"

\* C25: an exception of a worker is handled as a failure with code 1 and is
\* raised by DAGPool.exec after the loop has ended
C25_ExceptionAfterLoop == [][C25_Step]_vars /\ []C25_State

\* the worker of build raised: DAGPool.exec raised after test, which has no
\* dep on build, ran to its end and lint, which depends on build, was skipped
C25_Witness ==
    /\ pc = "raised"
    /\ view.none
    /\ graph_up = [n \in Nodes |-> IF n = "lint" THEN {"build"} ELSE {}]
    /\ results["build"] = ExcResult
    /\ Skipped("lint")
    /\ Succeeded("test")
    /\ "test" \in ran

\* ------------------------------------------------ properties of termination
\* the while loop of DAGPool._exec was left
LoopLeft == pc \in {"cancel", "return", "done", "raised"}

\* C26: when every submitted runnable returns or raises, DAGPool.exec ends
\* (Runner.exec returns, or the exception of a worker is raised), and when
\* the loop is left in_degree is empty and futures holds no future
C26_Terminates ==
    /\ <>(pc \in {"done", "raised"})
    /\ [](LoopLeft => (DOMAIN in_degree = {} /\ DOMAIN futures = {}))

\* the run of build, test and lint, each upstream of the next, has ended
\* after all three were submitted
C26_Witness ==
    /\ pc = "done"
    /\ view.none
    /\ graph_up = [n \in Nodes |-> IF n = "lint" THEN {"test"}
                                   ELSE IF n = "test" THEN {"build"} ELSE {}]
    /\ \A n \in Nodes : submits[n] = 1
    /\ DOMAIN in_degree = {}
    /\ DOMAIN futures = {}

\* ------------------------------------------------- properties of Cache.get
\* _get_entry reads the dir without FileNotFoundError: the manifest is there
\* with the hash, the log it names is there, and with a backend that restores
\* artifacts every copy it lists is there
Readable(dir, hash) ==
    /\ dir.manifest.present
    /\ dir.manifest.hash = hash
    /\ dir.manifest.log => dir.out.some
    /\ r_cache \in {"local", "s3"} =>
          \A p \in dir.manifest.artifacts : dir.arts[p] # NoFile

\* the cache dir when the get began, and after on_miss of the S3 backend
DirBefore == EntryDir(second.fs, second.hash)
DirDownloaded ==
    download_dir(DirBefore, DirAt(remote_fs, remote_path(TheName, second.hash)))

\* C27: Cache.get returns an entry only with the hash of the fingerprint of
\* the runnable; it returns the entry without on_miss if the dir is readable;
\* if not, it is a miss: on_miss is called, the backends without on_miss
\* return None and leave the cache as it is, and the S3 backend returns the
\* entry iff the dir is readable after the download, None otherwise
C27_GetMissesOnBadEntry ==
    (step = "done" /\ second.op = "get") =>
        /\ second.entry.found => second.entry.manifest.hash = second.hash
        /\ r_cache = "none" => (~second.entry.found /\ ~second.missed)
        /\ r_cache # "none" => (second.missed <=> ~Readable(DirBefore, second.hash))
        /\ r_cache \in {"repo", "local"} =>
              /\ second.entry.found <=> Readable(DirBefore, second.hash)
              /\ cache_fs = second.fs
        /\ r_cache = "s3" =>
              (second.entry.found <=> \/ Readable(DirBefore, second.hash)
                                      \/ Readable(DirDownloaded, second.hash))

\* the S3 backend read a manifest that names a log that is not there, called
\* on_miss, and the dir it read again has no copy of a listed artifact: None
C27_Witness ==
    /\ step = "done"
    /\ second.op = "get"
    /\ r_cache = "s3"
    /\ DirBefore.manifest.present
    /\ DirBefore.manifest.log
    /\ ~DirBefore.out.some
    /\ second.missed
    /\ DirDownloaded.out.some
    /\ DirDownloaded.manifest.artifacts # {}
    /\ ~second.entry.found

\* ----------------------------------------------- properties of cache_when
\* the operation is an unforced Runnable.exec with a caching backend
Lookup(op) == op.op = "exec" /\ ~op.force /\ r_cache # "none"

\* the cache dir of the fingerprint of the operation held, when it began, a
\* readable entry whose code cache_when does not let through
StaleCode(op) ==
    /\ Readable(EntryDir(op.fs, op.hash), op.hash)
    /\ ~should_cache(cache_when, EntryDir(op.fs, op.hash).manifest.code)

\* what cache_when lets through, case by case
Cacheable(code) ==
    \/ cache_when = "success" /\ code = 0
    \/ cache_when = "failed" /\ code # 0
    \/ cache_when = "finished"

\* C28 for one operation: a hit has a code that cache_when lets through, an
\* entry with another code is a miss and the command runs; the result of a
\* command that ran is stored iff cache_when lets its code through
CacheWhenObeyed(op) ==
    /\ should_cache(cache_when, op.result.code) <=> Cacheable(op.result.code)
    /\ (op.op = "exec" /\ ~op.ran) =>
          /\ op.entry.found
          /\ Cacheable(op.result.code)
          /\ op.result.code = op.entry.manifest.code
    /\ (Lookup(op) /\ StaleCode(op)) => op.ran
    /\ (op.op = "exec" /\ op.ran) => (op.stored <=> Cacheable(op.result.code))

\* C28: a result is written to the cache iff should_cache(code), a stored
\* entry is a hit only if its code satisfies the current cache_when, and
\* otherwise the command runs again.  After the second operation the cache dir
\* of its result holds the manifest of the result if it was stored; if it was
\* not stored the repo and the local cache are as they were before
C28_CacheWhenDecides ==
    /\ first.op # "none" => CacheWhenObeyed(first)
    /\ second.op # "none" => CacheWhenObeyed(second)
    /\ (step = "done" /\ second.op = "exec" /\ second.ran /\ r_cache # "none") =>
          IF second.stored
          THEN /\ EntryDir(cache_fs, second.result.hash).manifest.present
               /\ EntryDir(cache_fs, second.result.hash).manifest.hash = second.result.hash
               /\ EntryDir(cache_fs, second.result.hash).manifest.code = second.result.code
          ELSE r_cache # "s3" => cache_fs = second.fs

\* cache_when is success and the cache holds an entry of code 1 for the
\* fingerprint: the execution is a miss, runs the command, which ends with
\* code 1 again, and stores nothing
C28_Witness ==
    /\ step = "done"
    /\ cache_when = "success"
    /\ r_cache = "local"
    /\ first.op = "set"
    /\ first.result.code = 1
    /\ Lookup(second)
    /\ second.hash = first.result.hash
    /\ StaleCode(second)
    /\ second.ran
    /\ second.result.code = 1
    /\ ~second.stored
    /\ cache_fs = second.fs

\* ----------------------------------------------- properties of Runner.exec
\* C29: when Runner.exec has returned or raised, Runner.graph is the graph
\* it was before the call
C29_GraphRestored ==
    run_pc \in {"returned", "raised"} => view = run_orig

\* Runner.exec was called with changes on the whole graph and raised: the
\* graph of the runner is the filtered one, without test
C29_LeftFiltered ==
    /\ run_pc = "raised"
    /\ run_orig.none
    /\ ~view.none
    /\ "test" \notin view.names

\* ------------------------------------------- properties of the change sets
\* the number of events that were handled when run k started (0 for k = 0)
UpTo(k) == IF k = 0 THEN 0 ELSE w_execs[k].upto

\* the accepted changes of the events after event m up to event n
ChangesBetween(m, n) ==
    {ChangeOf(w_events[j].path) :
        j \in {i \in (m + 1)..n : Accepted(w_events[i].path)}}

\* C30: the change set of every Runner.exec of the watcher holds exactly the
\* changes accepted since the run before it started, so that every accepted
\* change is in the change set of one run and of no other, and when the
\* watcher has come to rest every accepted change has been in a run
C30_EveryChangeInOneRun ==
    /\ \A k \in 1..Len(w_execs) :
          w_execs[k].changes = ChangesBetween(UpTo(k - 1), UpTo(k))
    /\ Quiescent => ChangesAfter(UpTo(Len(w_execs))) = {}

\* src/a.py was in the change set of a run, and is in the change set of the
\* next run although no event for it came in between
C30_ChangeRunsTwice ==
    /\ Len(w_execs) = 2
    /\ w_events[1].path = "src/a.py"
    /\ w_execs[1].changes = {"src/a.py"}
    /\ "src/a.py" \in w_execs[2].changes
    /\ "src/a.py" \notin ChangesBetween(UpTo(1), UpTo(2))

\* ----------------------------------------- properties of a second filter
\* C31: a filter by changes of a graph, filtered before or not, returns, and
\* the view it returns has nodes of the view of that graph only
C31_FilterNarrows ==
    f_out.op = "filter" =>
        /\ f_out.raised = "none"
        /\ f_out.view \subseteq nodes

\* the graph was filtered to lint, which has the Cmd dep build: the filter by
\* a change of a file of lint raised KeyError
C31_KeyError ==
    /\ f_out.op = "filter"
    /\ f_out.strategy = "since"
    /\ view = [none |-> FALSE, names |-> {"lint"}]
    /\ graph_up["lint"] = {"build"}
    /\ f_out.raised = "KeyError"

\* the graph was filtered to build, on which test depends strictly: the
\* filter by a change of a file of build returned the view {build, test}
C31_WiderView ==
    /\ f_out.op = "filter"
    /\ view = [none |-> FALSE, names |-> {"build"}]
    /\ f_out.raised = "none"
    /\ f_out.view = {"build", "test"}
\* ------------------------------------------------ properties of the graph build
GraphBuilt == b_out.state \in {"built", "executed"}

\* the commands one or more edges of g away from the commands of S
RECURSIVE Reach(_, _, _)
Reach(g, S, k) ==
    IF k = 0 THEN S ELSE Reach(g, S \cup UNION {g[m] : m \in S}, k - 1)

Below(g, n) == Reach(g, g[n], Cardinality(Nodes))

\* a Cmd dep of r on d that is isolated
IsolatedEdge(r, d) ==
    /\ r # d
    /\ b_conf[<<r, d>>] # "no"
    /\ isolated(r, d)

\* a Cmd dep of r on d that is not isolated
OpenEdge(r, d) ==
    /\ r # d
    /\ b_conf[<<r, d>>] # "no"
    /\ ~isolated(r, d)

NoOverride == \A p \in Pairs : b_conf[p] \in {"no", "unset"}

\* C32 as stated: the target of an isolated edge of a runnable of the graph
\* that was not selected is not in the graph and no edge to it is recorded;
\* with the global isolated setting and no per-dep override the nodes are
\* the selected runnables.
C32_Original ==
    GraphBuilt =>
        /\ \A r \in b_out.nodes : \A d \in Nodes \ b_cmds :
              IsolatedEdge(r, d) =>
                  /\ d \notin b_out.nodes
                  /\ \A m \in Nodes : d \notin b_out.up[m]
        /\ (b_isolated /\ NoOverride) => b_out.nodes = b_cmds

\* C32: an isolated edge to a runnable that was not selected is not recorded,
\* and that runnable is in the graph only when an edge that is not isolated
\* leads to it from a runnable of the graph; with the global isolated setting
\* and no per-dep override the nodes are the selected runnables.
C32_IsolatedEdgeSkipped ==
    GraphBuilt =>
        /\ \A r \in Nodes : \A d \in Nodes \ b_cmds :
              IsolatedEdge(r, d) => d \notin b_out.up[r]
        /\ \A d \in b_out.nodes \ b_cmds :
              \E m \in b_out.nodes : OpenEdge(m, d) /\ d \in b_out.up[m]
        /\ (b_isolated /\ NoOverride) => b_out.nodes = b_cmds

\* lint's isolated dep on build is skipped while test's open dep adds build
C32_Witness ==
    /\ b_out.state = "built"
    /\ b_cmds = {"lint", "test"}
    /\ IsolatedEdge("lint", "build")
    /\ OpenEdge("test", "build")
    /\ "build" \in b_out.nodes
    /\ "build" \notin b_out.up["lint"]
    /\ "build" \in b_out.up["test"]

\* a cycle among the deps the build follows from the selected commands
FollowedCycle ==
    LET g == [n \in Nodes |-> followed(n)]
    IN  \E n \in Reach(g, b_cmds, Cardinality(Nodes)) : n \in Below(g, n)

\* C33: a cycle among the Cmd deps the graph build follows ends _get_graph
\* with GraphCycle and no runnable is executed; a graph that is built, and so
\* every graph that is executed, has no cycle.
C33_CycleReported ==
    /\ (b_out.state # "none" /\ FollowedCycle) => b_out.state = "GraphCycle"
    /\ GraphBuilt => \A n \in Nodes : n \notin Below(b_out.up, n)
    /\ b_out.state = "GraphCycle" => b_out.nodes = {}

\* build and test depend on each other and the build is refused
C33_Witness ==
    /\ b_out.state = "GraphCycle"
    /\ b_cmds = {"test"}
    /\ b_conf[<<"test", "build">>] = "open"
    /\ b_conf[<<"build", "test">>] = "open"
\* ------------------------------------------------ properties of the cache status
\* the cache dir of the runnable holds an entry of the current fingerprint with
\* an artifact that the project directory does not have
WarmWithArtifact ==
    LET bp == base_path(r_cache, TheName, Fingerprint(deps_version))
    IN  /\ bp \in DOMAIN cache_fs
        /\ cache_fs[bp].manifest.present
        /\ cache_fs[bp].manifest.hash = Fingerprint(deps_version)
        /\ "dist/a" \in cache_fs[bp].manifest.artifacts
        /\ cache_fs[bp].arts["dist/a"] # NoFile

C35_MissLeavesArtifacts ==
    (step = "done" /\ second.op = "get" /\ ~second.entry.found) =>
        worktree = second.before

\* the local backend lists two artifacts and has the copy of one: the get
\* restored that one and returned None
C35_PartialRestore ==
    /\ step = "done"
    /\ second.op = "get"
    /\ r_cache = "local"
    /\ ~second.entry.found
    /\ DirBefore.manifest.artifacts = ArtPaths
    /\ DirBefore.arts["dist/b"] = NoFile
    /\ second.before["dist/a"] = NoFile
    /\ worktree["dist/a"] = "v1"
\* ------------------------------------------------ properties of the hash of a result
\* the first operation ran the command, which rewrote files the runnable
\* depends on, with a code that cache_when lets through; the second is an
\* execution without force at the fingerprint the command left
C36_Case ==
    /\ step = "done"
    /\ first.op = "exec" /\ ~first.force /\ first.ran
    /\ first.result.hash # first.hash
    /\ should_cache(cache_when, first.result.code)
    /\ second.op = "exec" /\ ~second.force
    /\ second.hash = first.result.hash
    /\ r_cache # "none"
    /\ ~cleaned

\* the manifest the backend holds for a hash
ManifestAt(hash) == DirAt(cache_fs, base_path(r_cache, TheName, hash)).manifest
FirstManifest == ManifestAt(first.result.hash)

\* a step that records an execution that ran the command gives the result and
\* the stored manifest the fingerprint of the deps as the command left them
C36_Step ==
    (step = "first" /\ first'.op = "exec" /\ first'.ran) =>
        /\ first'.result.hash = Fingerprint(deps_version')
        /\ (first'.stored /\ r_cache # "none") =>
              /\ FirstManifest'.present
              /\ FirstManifest'.hash = Fingerprint(deps_version')

\* the second execution does not run the command and returns the same hash
C36_Hit ==
    C36_Case =>
        /\ ~second.ran
        /\ second.result.hash = first.result.hash

\* C36: the result of an execution that ran the command, and the manifest
\* stored for it, have the fingerprint of the deps as the command left them;
\* a second execution right after a command that rewrote its deps does not
\* run it and returns the same hash.
C36_HashAfterRun == [][C36_Step /\ C36_Hit']_vars

\* a command that rewrote its deps is a hit when it is executed again
C36_Witness ==
    /\ C36_Case
    /\ ~second.ran
    /\ first.hash = Fingerprint("d1")
    /\ first.result.hash = Fingerprint("d2")
\* ------------------------------------------------ properties of a failed lookup
\* a step that executes the runnable without force on a backend that is read,
\* while Runnable.hash raises
LookupRaises ==
    /\ dist_installed' = dist_installed
    /\ dotenv_found' = dotenv_found
    /\ ~dist_installed
    /\ r_cache # "none"
    /\ x_last'.op = "exec"
    /\ ~x_last'.force

\* C37: an execution whose cache lookup raises a RunnableError ends with code
\* 1, the message of the error as log and an empty hash, does not run the
\* command and writes nothing to the backend, whatever cache_when is.
C37_LookupErrorWritesNothing ==
    [][LookupRaises =>
          /\ x_last'.result = Result(fmt_msg("pydist0"), 1, EmptyHash)
          /\ ~x_last'.raised
          /\ ~x_last'.ran
          /\ ~x_last'.stored
          /\ cache_fs' = cache_fs
          /\ remote_fs' = remote_fs]_vars

\* the lookup failed under cache_when = "failed", which lets code 1 through
C37_Witness ==
    /\ x_last.op = "exec"
    /\ ~x_last.force
    /\ x_last.error = "pydist0"
    /\ x_last.result.code = 1
    /\ x_last.result.hash = EmptyHash
    /\ ~x_last.ran
    /\ cache_when = "failed"
    /\ r_cache = "local"
    /\ cache_fs = << >>
\* ------------------------------------------------ properties of the per-run caches
\* C38: when Runner.exec has returned or raised, the cache of the
\* per_run_cache function and the attribute of the per_run_cached_property
\* are empty; a call never returns a value that was memoized before the run
\* it is made in; a property that holds a value is registered for clearing.
C38_PerRunCachesCleared ==
    /\ run_pc \in {"returned", "raised"} => (m_func = NoMemo /\ m_prop = NoMemo)
    /\ m_ret # "before"
    /\ m_func # "before"
    /\ m_prop # "before"
    /\ m_prop # NoMemo => m_reg

\* Runner.exec raised after its runnables memoized a property, which is gone
C38_Witness ==
    /\ run_pc = "raised"
    /\ m_ret = "now"
    /\ m_reg
    /\ m_func = NoMemo
    /\ m_prop = NoMemo
\* ------------------------------------------------ properties of packages_distributions
\* the mapping was computed from contents of the hash
FromHash(map, hash) == venv_hash(map.src) = hash

\* C39: while the dir changes between calls only, the mapping a call returns
\* was computed from contents with the hash of the dir at the call; the
\* in-memory tuple and the file hold mappings of their hashes and the tuple,
\* once set, is the file; after a call that computed, both have its hash, and
\* the file is returned only while the tuple is unset.
C39_NeverStale ==
    ~v_midcall =>
        /\ \A t \in Threads :
              v_ret[t].path # "none" =>
                  /\ v_ret[t].hash = venv_hash(v_dir)
                  /\ FromHash(v_ret[t].map, v_ret[t].hash)
        /\ \A t \in Threads :
              v_ret[t].path = "computed" =>
                  /\ v_mem.hash = v_ret[t].hash
                  /\ v_disk.hash = v_ret[t].hash
        /\ \A t \in Threads : v_ret[t].path = "disk" => v_mem = NoMem
        /\ v_disk.present => FromHash(v_disk.map, v_disk.hash)
        /\ v_mem # NoMem =>
              /\ FromHash(v_mem.map, v_mem.hash)
              /\ v_disk.present
              /\ v_disk.hash = v_mem.hash
              /\ v_disk.map = v_mem.map

\* after a change of the dir one caller computed and the other got the
\* mapping from memory
C39_Witness ==
    /\ ~v_midcall
    /\ v_dir = {"a", "pkg"}
    /\ v_ret[1].path = "computed"
    /\ v_ret[2].path = "memory"
    /\ v_ret[2].map = pkg_to_dist({"a", "pkg"})

\* the dir changed between the listing and the computation of a call: a
\* later call gets from memory a mapping of contents of another hash
C39_MidCallStale ==
    /\ v_midcall
    /\ \E t \in Threads :
          /\ v_ret[t].path = "memory"
          /\ v_ret[t].hash = venv_hash(v_dir)
          /\ ~FromHash(v_ret[t].map, v_ret[t].hash)
\* ------------------------------------------------ properties of _make_runnable
\* C40: a command without deps gets the backend none unless its configuration
\* sets a cache, and then the set backend; a command with deps gets its own
\* cache, else the default of the project, else local.
C40_CacheOfCommand ==
    k_out.made =>
        k_out.cache =
            IF ~k_conf.deps
            THEN IF k_conf.cache = UNSET THEN "none" ELSE k_conf.cache
            ELSE IF k_conf.cache # UNSET THEN k_conf.cache
            ELSE IF k_defaults.cache # UNSET THEN k_defaults.cache
            ELSE "local"

\* a command without deps whose configuration sets the cache repo got none
C40_ExplicitCacheIgnored ==
    /\ k_out.made
    /\ ~k_conf.deps
    /\ k_conf.cache = "repo"
    /\ k_out.cache = "none"

\* the cache of a command with deps, and of one without deps and without a
\* cache of its own, is as the claim says
C40_WithDeps ==
    (k_out.made /\ (k_conf.deps \/ k_conf.cache = UNSET)) =>
        k_out.cache =
            IF ~k_conf.deps THEN "none"
            ELSE IF k_conf.cache # UNSET THEN k_conf.cache
            ELSE IF k_defaults.cache # UNSET THEN k_defaults.cache
            ELSE "local"

====
